---- MODULE Spec2Model ----
(***************************************************************************)
(* Frame assembly, depth partitioning and orbit sample cache of            *)
(* Renderer (src/src/celengine/render.cpp).                                *)
(*                                                                         *)
(* Depths are camera-space z coordinates as in the source: negative in     *)
(* front of the camera, so a larger z is nearer. They are fixed-point      *)
(* integers in units of 1e-6 km (Km units to the kilometre); the inputs    *)
(* are multiples of 1000 units, so that the source's float factors 1.01,   *)
(* 0.999, 0.01 and 1/2000 are computed exactly.                            *)
(***************************************************************************)
EXTENDS Integers, Sequences, FiniteSets, TLC

VARIABLES
    pc,                     \* position of draw(): "idle", "collect", "cull", "render"
    frameCount,             \* Renderer::frameCount
    renderList,             \* Renderer::renderList
    orbitPathList,          \* Renderer::orbitPathList
    depthSortedAnnotations, \* Renderer::depthSortedAnnotations (position.z() of each)
    depthPartitions,        \* Renderer::depthPartitions
    zNearest,               \* draw()'s local zNearest as left by the last partitioning
    orbitCache,             \* Renderer::orbitCache: orbit -> CurvePlot or NoPlot
    lastOrbitCacheFlush,    \* Renderer::lastOrbitCacheFlush
    now,                    \* observer.getTime(), the t handed to renderOrbit
    detailOptions,          \* Renderer::detailOptions (orbit window settings)
    lastCall,               \* what the frame's last renderOrbit call did (history)
    lastTime,               \* cached orbit -> time of its last renderOrbit call (history)
    frameInserts,           \* cache insertions in the current frame (history)
    maxFrameInserts,        \* most cache insertions seen in any one frame (history)
    frameScans,             \* eviction scans run in the current frame (history)
    font,                   \* whether font[FontNormal] is loaded
    currentIntervalIndex,   \* Renderer::currentIntervalIndex, -1 before the interval loop
    entryIndex,             \* draw()'s local i in the interval loop, as an index of renderList
    annotation,             \* draw()'s iterator annotation, as an index of depthSortedAnnotations
    depthRange,             \* the range last given to glDepthRange
    orbitIndex,             \* position of the interval's loop over orbitPathList (from 1)
    renderLog,              \* the frame's renderItem calls and annotations drawn (history)
    objectAnnotationSetOpen, \* Renderer::objectAnnotationSetOpen
    objectAnnotations,      \* Renderer::objectAnnotations
    objectAnnotationCalls,  \* the frame's begin and end calls, whether every assertion held (history)
    lightSourceList,        \* Renderer::lightSourceList
    foregroundAnnotations,  \* Renderer::foregroundAnnotations
    backgroundAnnotations,  \* Renderer::backgroundAnnotations
    subtree,                \* buildRenderLists: the frame tree last met and what was decided (history)
    lightingState,          \* renderPlanet's LightingState of the body being rendered
    lastEclipse             \* the last testEclipse call: caster, result, state before (history)

vars == <<pc, frameCount, renderList, orbitPathList, depthSortedAnnotations,
          depthPartitions, zNearest, orbitCache, lastOrbitCacheFlush, now,
          detailOptions, lastCall, lastTime, frameInserts, maxFrameInserts, frameScans,
          font, currentIntervalIndex, entryIndex, annotation, depthRange,
          orbitIndex, renderLog, objectAnnotationSetOpen, objectAnnotations,
          objectAnnotationCalls, lightSourceList, foregroundAnnotations,
          backgroundAnnotations, subtree, lightingState, lastEclipse>>

drawVars == <<renderList, orbitPathList, depthSortedAnnotations, depthPartitions,
              zNearest>>
orbitVars == <<orbitCache, lastOrbitCacheFlush, now, detailOptions, lastCall,
               lastTime>>
labelVars == <<objectAnnotationSetOpen, objectAnnotations, objectAnnotationCalls>>
loopVars == <<currentIntervalIndex, entryIndex, annotation, depthRange, orbitIndex,
              renderLog, labelVars>>
queueVars == <<lightSourceList, foregroundAnnotations, backgroundAnnotations>>
bodyVars == <<subtree, lightingState, lastEclipse>>

(***************************************************************************)
(* Bounds of the model.                                                    *)
(***************************************************************************)
MaxEntries == 3        \* render list entries collected in one frame
MaxOrbitPaths == 2     \* orbit paths collected in one frame
MaxAnnotations == 2    \* depth-sorted annotations collected in one frame
MaxBodies == 23        \* bodies of the scenes that set the number of depth intervals
MaxShadows == 2        \* eclipse shadows gathered for one body
\* MaxLights, the length of LightingState::lights, is a constant of the shader
\* manager; it is scaled down here so that more suns than lights are within reach.
MaxLights == 4
MaxObjectAnnotations == 2   \* location labels added in one interval
MaxQueued == 1         \* annotations put in one queue between two frames
MaxFrames == 4         \* frames drawn in one behaviour
\* The two cache constants of the source are 200 entries and 16 frames. They
\* are scaled down here so that a full cache and a retired entry are within
\* reach; the formulas below refer to them by name only.
OrbitCacheCullThreshold == 2
OrbitCacheRetireAge == 2

Km == 1000 * 1000

Max(a, b) == IF a >= b THEN a ELSE b
Min(a, b) == IF a <= b THEN a ELSE b
Abs(a) == IF a < 0 THEN -a ELSE a

\* x * num / den for the float factors of the source, without overflowing
\* 32 bits; exact when x is a multiple of den, else truncated towards zero.
Scaled(x, num, den) ==
    LET a == Abs(x)
        q == (a \div den) * num + ((a % den) * num) \div den
    IN  IF x < 0 THEN -q ELSE q

(***************************************************************************)
(* Program constants.                                                      *)
(***************************************************************************)
\* 0.0001 km
MinNearPlaneDistance == 100
\* MaxFarNearRatio * 0.5f = 1000000
HalfMaxFarNearRatio == 2000000 \div 2
\* prevNear = -1e12f km (about a light year). The model's 32-bit fixed point
\* ends before that: the constant is the farthest depth it represents, 2000 km,
\* farther than every object, orbit and annotation of the pools below.
InitialPrevNear == -2000 * Km

(***************************************************************************)
(* Scene pools: what buildRenderLists, renderStars and buildOrbitLists can *)
(* hand to draw() in one frame. A render pool entry carries the fields of  *)
(* RenderListEntry set before culling and the quantities the culling loop  *)
(* derives from the owning object: nearRaw is                              *)
(* -(center.norm() - radius) * cos(fov/2) * windowHeight/maxSpan,          *)
(* geomRadius the local `radius` (bounding radius, or the rings' outer     *)
(* radius), convex the local `convex`, inside whether d <= eradius,        *)
(* cloudTerm sqrt(cloudLayerRadius^2 - eradius^2) (0 without clouds) and   *)
(* inFrustum the outcome of frustum.testSphere.                            *)
(***************************************************************************)
Obj(id, centerZ, radius, disc, opaque, nearRaw, convex, geomRadius, inside, cloudTerm, inFrustum) ==
    [id |-> id, centerZ |-> centerZ, radius |-> radius,
     discSizeInPixels |-> disc, isOpaque |-> opaque, nearRaw |-> nearRaw,
     convex |-> convex, geomRadius |-> geomRadius, inside |-> inside,
     cloudTerm |-> cloudTerm, inFrustum |-> inFrustum]

RenderPool == <<
    \* 1: sphere, depth extent 500..1000 km
    Obj(1, -900 * Km, 100 * Km, 2, TRUE, -500 * Km, TRUE, 100 * Km, FALSE, 0, TRUE),
    \* 2: sphere, depth extent 5..10 km
    Obj(2, -8 * Km, 2 * Km, 2, TRUE, -5 * Km, TRUE, 2 * Km, FALSE, 0, TRUE),
    \* 3: translucent sphere, depth extent 0.5..1 km
    Obj(3, -800000, 200000, 2, FALSE, -500000, TRUE, 200000, FALSE, 0, TRUE),
    \* 4: ringed planet at 6 km, body radius 1 km, rings out to 6 km
    Obj(4, -6 * Km, 1 * Km, 2, TRUE, -3 * Km, FALSE, 6 * Km, FALSE, 0, TRUE),
    \* 5: sub-pixel body with the same depth key as entry 2
    Obj(5, -9900000, 100000, 1, TRUE, -7 * Km, TRUE, 100000, FALSE, 0, TRUE),
    \* 6: planet with clouds, the camera inside it
    Obj(6, -200 * Km, 900 * Km, 2, TRUE, 300 * Km, TRUE, 900 * Km, TRUE, 50000, TRUE),
    \* 7: reference mark, the camera inside its bounding sphere near the far edge
    Obj(7, 19995000, 20 * Km, 2, FALSE, 2000, FALSE, 20 * Km, FALSE, 0, TRUE),
    \* 8: body outside the view frustum
    Obj(8, -3 * Km, 1 * Km, 2, TRUE, -1 * Km, TRUE, 1 * Km, FALSE, 0, FALSE),
    \* 9: comet tail, the camera just outside its bounding sphere
    Obj(9, -500 * Km, 500 * Km, 2, FALSE, -200, FALSE, 500 * Km, FALSE, 0, TRUE)
>>

\* OrbitPathListEntry: the orbit it draws, centerZ and bounding radius.
Path(orbit, centerZ, radius) ==
    [orbit |-> orbit, centerZ |-> centerZ, radius |-> radius]

OrbitPathPool == <<
    Path(1, -50 * Km, 30 * Km),     \* 20..80 km in front of the camera
    Path(2, -100000, 150 * Km),     \* around the camera
    Path(3, -1500 * Km, 100 * Km),  \* 1400..1600 km
    Path(4, -40 * Km, 10 * Km),
    Path(5, -300 * Km, 20 * Km)
>>

\* position.z() of the depth-sorted annotations: the distance in front of
\* the camera (addAnnotation stores win.z() = -depth).
AnnotationPool == <<45 * Km, 5 * Km, 50000, 1200 * Km, 8000>>

(***************************************************************************)
(* Sorting: std::sort leaves any order that the comparison admits.         *)
(***************************************************************************)
\* operator<(RenderListEntry), OrbitPathListEntry::operator<
DepthLess(a, b) == a.centerZ - a.radius > b.centerZ - b.radius
\* Annotation::operator<
AnnotationLess(a, b) == a > b

Reordered(s) ==
    {[i \in 1..Len(s) |-> s[p[i]]] : p \in Permutations(1..Len(s))}

\* Variant of SortedRenderLists: the list is left in insertion order.
InsertionOrder(s) == {s}
SortedRenderLists(s) ==
    {r \in Reordered(s) :
        \A i, j \in 1..Len(r) : i < j => ~DepthLess(r[j], r[i])}

\* Variant of SortedAnnotations: the annotations stay in insertion order.
UnsortedAnnotations(s) == {s}
SortedAnnotations(s) ==
    {r \in Reordered(s) :
        \A i, j \in 1..Len(r) : i < j => ~AnnotationLess(r[j], r[i])}

(***************************************************************************)
(* The culling loop of draw(): near and far extent of one entry.           *)
(***************************************************************************)
\* render_item.nearZ before the far plane is known
ClampedNearZ(o) ==
    IF o.nearRaw > -MinNearPlaneDistance
    THEN -Max(MinNearPlaneDistance, Scaled(o.geomRadius, 1, 2000))
    ELSE o.nearRaw

\* farZ / nearZ > MaxFarNearRatio * 0.5f, for nearZ < 0
RatioExceeds(farZ, nearZ) ==
    /\ farZ < 0
    /\ LET q == (-farZ) \div (-nearZ)
       IN  \/ q > HalfMaxFarNearRatio
           \/ q = HalfMaxFarNearRatio /\ (-farZ) % (-nearZ) # 0

ConvexFarZ(o, nearZ) ==
    (IF ~o.inside THEN o.centerZ - o.radius ELSE nearZ * 2) - o.cloudTerm

CullEntry(o) ==
    LET nearZ == ClampedNearZ(o)
        farZ == IF o.convex THEN ConvexFarZ(o, nearZ)
                ELSE o.centerZ - o.geomRadius
        nearZ2 == IF ~o.convex /\ RatioExceeds(farZ, nearZ)
                  THEN Scaled(farZ, 1, HalfMaxFarNearRatio)
                  ELSE nearZ
    IN  [id |-> o.id, centerZ |-> o.centerZ, radius |-> o.radius,
         discSizeInPixels |-> o.discSizeInPixels, isOpaque |-> o.isOpaque,
         nearZ |-> nearZ2, farZ |-> farZ]

CullList(list) ==
    LET kept == SelectSeq(list, LAMBDA o : o.inFrustum)
    IN  [i \in 1..Len(kept) |-> CullEntry(kept[i])]

(***************************************************************************)
(* Depth partitioning in draw(). A DepthBufferPartition is                 *)
(* [index, nearZ, farZ]; depthPartitions[k + 1] here is the source's       *)
(* depthPartitions[k].                                                     *)
(***************************************************************************)
Partition(index, nearZ, farZ) == [index |-> index, nearZ |-> nearZ, farZ |-> farZ]

\* prevNear before the scan
StartPrevNear(list) ==
    IF Len(list) > 0 THEN Scaled(list[Len(list)].farZ, 101, 100)
    ELSE InitialPrevNear

\* Variant of NewIntervals that leaves the gap behind entry e unfilled.
NewIntervalsNoGap(parts, prevNear, e) ==
    Append(parts, Partition(Len(parts), e.nearZ, e.farZ))

\* Variant of NewIntervals: the interval count is not advanced between the
\* gap interval and the interval of the entry.
NewIntervalsOneIndex(parts, prevNear, e) ==
    LET gap == Partition(Len(parts), e.farZ, prevNear)
        filled == IF gap.nearZ # gap.farZ THEN Append(parts, gap) ELSE parts
    IN  Append(filled, Partition(Len(parts), e.nearZ, e.farZ))

\* A new interval for entry e, after the interval that fills the gap to the
\* last one (omitted when null).
NewIntervals(parts, prevNear, e) ==
    LET gap == Partition(Len(parts), e.farZ, prevNear)
        filled == IF gap.nearZ # gap.farZ THEN Append(parts, gap) ELSE parts
    IN  Append(filled, Partition(Len(filled), e.nearZ, e.farZ))

\* The current interval expanded to contain entry e.
ExpandInterval(parts, e) ==
    [parts EXCEPT ![Len(parts)] =
        [@ EXCEPT !.nearZ = Max(@, e.nearZ), !.farZ = Min(@, e.farZ)]]

\* Whether entry e starts an interval of its own.
StartsInterval(parts, e) ==
    Len(parts) = 0 \/ e.farZ >= parts[Len(parts)].nearZ

\* The scan from back to front, entries i down to 1 still to come.
RECURSIVE ScanEntries(_, _, _, _)
ScanEntries(list, i, parts, prevNear) ==
    IF i = 0 THEN [parts |-> parts, prevNear |-> prevNear]
    ELSE IF list[i].discSizeInPixels > 1
    THEN LET next == IF StartsInterval(parts, list[i])
                     THEN NewIntervals(parts, prevNear, list[i])
                     ELSE ExpandInterval(parts, list[i])
         IN  ScanEntries(list, i - 1, next, next[Len(next)].nearZ)
    ELSE ScanEntries(list, i - 1, parts, prevNear)

\* zNearest after the scan of the orbit paths
RECURSIVE NearestOrbit(_, _, _)
NearestOrbit(orbits, i, z) ==
    IF i > Len(orbits) THEN z
    ELSE LET minNearDistance ==
                 Min(-MinNearPlaneDistance, orbits[i].centerZ + orbits[i].radius)
         IN  NearestOrbit(orbits, i + 1, IF minNearDistance > z THEN minNearDistance ELSE z)

\* zNearest adjusted to the marker the source takes for the closest one
NearestMarker(annotations, z) ==
    IF annotations # <<>> /\ -annotations[1] > z
    THEN Scaled(-annotations[1], 999, 1000)
    ELSE z

\* Variant of NearestBound without the reset to 0 of a zNearest that no
\* orbit path or annotation has moved.
NearestBoundNoReset(prevNear, orbits, annotations) ==
    NearestMarker(annotations, NearestOrbit(orbits, 1, prevNear))

\* zNearest as used for the front interval
NearestBound(prevNear, orbits, annotations) ==
    LET z == NearestMarker(annotations, NearestOrbit(orbits, 1, prevNear))
    IN  IF z = prevNear THEN 0 ELSE z

\* near plane of the front interval
Closest(z, list) ==
    IF Len(list) > 0
    THEN LET c == Max(z, list[1].nearZ)
         IN  IF c = 0 THEN Scaled(list[1].nearZ, 1, 100) ELSE c
    ELSE z

\* The farthest partition made to contain the farthest orbit.
ExtendFarthest(parts, orbits) ==
    IF orbits # <<>>
    THEN [parts EXCEPT ![1].farZ =
             Min(@, orbits[Len(orbits)].centerZ - orbits[Len(orbits)].radius)]
    ELSE parts

BuildPartitions(list, orbits, annotations) ==
    LET scan == ScanEntries(list, Len(list), <<>>, StartPrevNear(list))
        z == NearestBound(scan.prevNear, orbits, annotations)
        front == Partition(Len(scan.parts), Closest(z, list), scan.prevNear)
    IN  [parts |-> ExtendFarthest(Append(scan.parts, front), orbits),
         zNearest |-> z]

(***************************************************************************)
(* The interval loop of draw(): depth ranges. The source computes them in  *)
(* single precision; a float in [0, 2) is held here as an integer count of *)
(* 2^-30, which is exact for 1.0f / n below n = 128, and every operation   *)
(* rounds its exact result to 24 significant bits, ties to even.           *)
(***************************************************************************)
One == 1024 * 1024 * 1024

RECURSIVE Log2Floor(_)
Log2Floor(v) == IF v < 2 THEN 0 ELSE 1 + Log2Floor(v \div 2)

RECURSIVE Pow2(_)
Pow2(e) == IF e = 0 THEN 1 ELSE 2 * Pow2(e - 1)

\* v rounded to the nearest multiple of u, ties to the even multiple
RoundToMultiple(v, u) ==
    LET q == v \div u
        r == v % u
    IN  IF 2 * r > u \/ (2 * r = u /\ q % 2 = 1) THEN (q + 1) * u ELSE q * u

\* The float nearest to the exact value v
RoundToFloat(v) ==
    LET a == Abs(v)
        e == Log2Floor(a)
        r == IF e <= 23 THEN a ELSE RoundToMultiple(a, Pow2(e - 23))
    IN  IF v < 0 THEN -r ELSE r

\* 1.0f / (float) n, for n below 128: between powers of two the quotient
\* has 24 significant bits in multiples of u.
FloatReciprocal(n) ==
    LET u == Pow2(6 - Log2Floor(n))
        q == One \div (n * u)
        r == One % (n * u)
    IN  IF r = 0 THEN One \div n
        ELSE IF 2 * r > n * u \/ (2 * r = n * u /\ q % 2 = 1)
        THEN (q + 1) * u ELSE q * u

\* intervalSize
\* Variant of IntervalSize: the size for one interval more.
IntervalSizeOneMore(nIntervals) == FloatReciprocal(Max(1, nIntervals) + 1)
IntervalSize(nIntervals) == FloatReciprocal(Max(1, nIntervals))

\* The arguments of glDepthRange for an interval (0 is the farthest)
DepthRange(interval, nIntervals) ==
    LET size == IntervalSize(nIntervals)
    IN  <<RoundToFloat(One - RoundToFloat((interval + 1) * size)),
          RoundToFloat(One - RoundToFloat(interval * size))>>

(***************************************************************************)
(* The interval loop of draw(): the two passes over the render list and    *)
(* the annotations drawn. An entry of renderLog is [interval, kind, item]: *)
(* kind "opaque" or "transparent" for a renderItem call (item the entry's  *)
(* id), "annotation" for an annotation drawn (item its index in the sorted *)
(* list). Indices of the lists are from 1 here, from 0 in the source.      *)
(***************************************************************************)
Event(interval, kind, item) == [interval |-> interval, kind |-> kind, item |-> item]

\* Where a pass of the interval with partition d stops, starting at entry i
RECURSIVE PassEnd(_, _, _)
PassEnd(list, i, d) ==
    IF i >= 1 /\ list[i].farZ < d.nearZ THEN PassEnd(list, i - 1, d) ELSE i

InOpaquePass(e) == e.isOpaque /\ e.discSizeInPixels > 1
InTransparentPass(e) == ~e.isOpaque \/ e.discSizeInPixels <= 1

\* The renderItem calls of a pass over entries first down to last + 1
RECURSIVE PassItems(_, _, _, _, _)
PassItems(list, first, last, interval, kind) ==
    IF first <= last THEN <<>>
    ELSE LET e == list[first]
             mine == IF kind = "opaque" THEN InOpaquePass(e) ELSE InTransparentPass(e)
         IN  (IF mine THEN <<Event(interval, kind, e.id)>> ELSE <<>>)
             \o PassItems(list, first - 1, last, interval, kind)

\* Variant of FlushEnd: every annotation still to come is drawn.
FlushEndAll(annotations, iter, nearDist, hasFont) ==
    IF hasFont THEN Len(annotations) + 1 ELSE iter

\* renderSortedAnnotations: where the iterator stops
RECURSIVE FlushEnd(_, _, _, _)
FlushEnd(annotations, iter, nearDist, hasFont) ==
    IF hasFont /\ iter <= Len(annotations) /\ annotations[iter] > nearDist
    THEN FlushEnd(annotations, iter + 1, nearDist, hasFont)
    ELSE iter

\* renderSortedAnnotations: the annotations drawn
FlushItems(iter, end, interval) ==
    [j \in 1..(end - iter) |-> Event(interval, "annotation", iter + j - 1)]

(***************************************************************************)
(* The annotations of the objects of one interval (labels of locations).   *)
(* Each of the three functions is given with the values it leaves in       *)
(* objectAnnotationSetOpen and objectAnnotations and, where it has         *)
(* assertions, whether they held.                                          *)
(***************************************************************************)
NoCalls == [begun |-> 0, ended |-> 0, held |-> TRUE]

BeginObjectAnnotations(open, annotations) ==
    [open |-> TRUE, annotations |-> <<>>, held |-> ~open /\ annotations = <<>>]

\* Variant of EndObjectAnnotations: the set is left open.
EndObjectAnnotationsLeftOpen(open, annotations, hasFont) ==
    [open |-> open, annotations |-> <<>>,
     drawn |-> IF hasFont THEN annotations ELSE <<>>]
\* endObjectAnnotations: renderAnnotations draws nothing without a font
EndObjectAnnotations(open, annotations, hasFont) ==
    [open |-> FALSE, annotations |-> <<>>,
     drawn |-> IF hasFont THEN annotations ELSE <<>>]

AddObjectAnnotation(open, annotations, a) ==
    [open |-> open,
     annotations |-> IF open THEN Append(annotations, a) ELSE annotations,
     held |-> open]

\* The endObjectAnnotations call that closes interval `interval`; none
\* before the first interval has begun.
EndOfInterval(open, annotations, interval, hasFont) ==
    IF interval < 0
    THEN [open |-> open, annotations |-> annotations, drawn |-> <<>>, calls |-> 0]
    ELSE LET e == EndObjectAnnotations(open, annotations, hasFont)
         IN  [open |-> e.open, annotations |-> e.annotations, drawn |-> e.drawn,
              calls |-> 1]

LabelItems(drawn, interval) ==
    [j \in 1..Len(drawn) |-> Event(interval, "label", drawn[j])]

\* Variant of FinishInterval: the annotations are drawn before the
\* transparent pass.
FinishIntervalFlushFirst(list, parts, annotations, interval, firstInInterval, iter, hasFont) ==
    IF interval < 0 THEN [log |-> <<>>, annotation |-> iter]
    ELSE LET d == parts[interval + 1]
             end == FlushEnd(annotations, iter, -d.nearZ, hasFont)
         IN  [log |-> FlushItems(iter, end, interval)
                      \o PassItems(list, firstInInterval,
                                   PassEnd(list, firstInInterval, d), interval,
                                   "transparent"),
              annotation |-> end]

\* The second half of an interval: the transparent pass from firstInInterval
\* and the annotations; nothing before the first interval has begun.
FinishInterval(list, parts, annotations, interval, firstInInterval, iter, hasFont) ==
    IF interval < 0 THEN [log |-> <<>>, annotation |-> iter]
    ELSE LET d == parts[interval + 1]
             end == FlushEnd(annotations, iter, -d.nearZ, hasFont)
         IN  [log |-> PassItems(list, firstInInterval,
                                PassEnd(list, firstInInterval, d), interval,
                                "transparent")
                      \o FlushItems(iter, end, interval),
              annotation |-> end]

(***************************************************************************)
(* buildRenderLists: whether the frame tree of a body's children is        *)
(* traversed. A subtree is given by what the tests read: whether its       *)
(* nearest possible point is more than 1 km from the viewer (far), whether *)
(* its brightest possible object is brighter than the limiting magnitude,  *)
(* the size of its largest possible object in tenths of a pixel, whether   *)
(* its bounding sphere meets the view frustum, whether it holds secondary  *)
(* illuminators, and whether its influence sphere meets the view cone.     *)
(***************************************************************************)
Subtree(far, bright, largestTenths, intersects, illuminators, inCone) ==
    [far |-> far, bright |-> bright, largestTenths |-> largestTenths,
     intersects |-> intersects, illuminators |-> illuminators, inCone |-> inCone]
NoSubtree == [met |-> FALSE]

\* largestPossible in tenths of a pixel; 100 pixels when the viewer may be
\* inside the bounding sphere
LargestPossible(s) == IF s.far THEN s.largestTenths ELSE 100 * 10
\* brightestPossible < faintestPlanetMag; -100 when the viewer may be inside
BrightEnough(s) == IF s.far THEN s.bright ELSE TRUE
\* brightestPossible < faintestPlanetMag || largestPossible > 1.0f
PassesThreshold(s) == BrightEnough(s) \/ LargestPossible(s) > 10
\* The last check: the subtree could light something in the view cone
\* (largestPossible > PLANETSHINE_PIXEL_SIZE_LIMIT, a tenth of a pixel).
CouldIlluminate(s) == s.illuminators /\ LargestPossible(s) > 1 /\ s.inCone

\* Variant of TraverseSubtree: any one of the three tests is enough.
TraverseIfAny(s) == PassesThreshold(s) \/ s.intersects \/ CouldIlluminate(s)
\* traverseSubtree as buildRenderLists computes it
TraverseSubtree(s) ==
    LET visible == PassesThreshold(s) /\ s.intersects
    IN  visible \/ (~visible /\ CouldIlluminate(s))

(***************************************************************************)
(* testEclipse. A caster is given by what the test reads: its radius (the  *)
(* receiver's is ReceiverRadius), whether it has visible geometry, is      *)
(* extant at the time and is an ellipsoid, whether it has rings, whether   *)
(* the receiver lies in its shadow cylinder behind it, whether the shadow  *)
(* is deeper than 1/256, and whether its rings' shadow can reach the       *)
(* receiver. The lighting state is the shadows of one light and the ring   *)
(* shadow's caster (0: none).                                              *)
(***************************************************************************)
ReceiverRadius == 10 * 100
Caster(id, radius, geometry, extant, ellipsoid, rings, inShadow, deep, ringsReach) ==
    [id |-> id, radius |-> radius, hasVisibleGeometry |-> geometry,
     extant |-> extant, isEllipsoid |-> ellipsoid, hasRings |-> rings,
     inShadow |-> inShadow, deep |-> deep, ringsReach |-> ringsReach]
NoShadows == [shadows |-> <<>>, ringShadow |-> 0, lights |-> <<>>, nLights |-> 0]
NoEclipse == [called |-> FALSE]

\* caster.getRadius() >= receiver.getRadius() * MinRelativeOccluderRadius
LargeEnough(radius, receiverRadius) == radius * 1000 >= receiverRadius * 5

\* Variant of CasterQualifies: the shape of the caster is not looked at.
CasterQualifiesAnyShape(c, receiverRadius) ==
    /\ LargeEnough(c.radius, receiverRadius)
    /\ c.hasVisibleGeometry
    /\ c.extant
\* The condition under which testEclipse looks at the geometry at all
CasterQualifies(c, receiverRadius) ==
    /\ LargeEnough(c.radius, receiverRadius)
    /\ c.hasVisibleGeometry
    /\ c.extant
    /\ c.isEllipsoid

\* testEclipse: the value returned and the lighting state left
TestEclipse(ls, c, receiverRadius) ==
    IF ~CasterQualifies(c, receiverRadius)
    THEN [returned |-> FALSE, lights |-> ls]
    ELSE [returned |-> c.inShadow,
          lights |->
              [ls EXCEPT
                  !.shadows = IF c.inShadow /\ c.deep
                              THEN Append(ls.shadows, c.id) ELSE ls.shadows,
                  !.ringShadow = IF c.hasRings /\ c.ringsReach
                                 THEN c.id ELSE ls.ringShadow]]

(***************************************************************************)
(* setupObjectLighting. A sun is given by the irradiance it has at the     *)
(* object (luminosity / distance^2), a secondary illuminator by whether it *)
(* is farther than a tenth of its radius, its reflected irradiance at the  *)
(* object and the percentage of it that the phase leaves. A light of the   *)
(* LightingState is [irradiance, castsShadows]; only the first nLights of  *)
(* lights are in use. Irradiances after the gamma scaling are in           *)
(* sixteenths of the total.                                                *)
(***************************************************************************)
Light(irradiance, castsShadows) == [irradiance |-> irradiance, castsShadows |-> castsShadows]
Illuminator(farEnough, irr, phasePercent) ==
    [farEnough |-> farEnough, irr |-> irr, phasePercent |-> phasePercent]

\* The loop over the secondary illuminators: maxIrr after illuminators i..Len
RECURSIVE MaxSecondaryIrradiance(_, _, _)
MaxSecondaryIrradiance(illuminators, i, maxIrr) ==
    IF i > Len(illuminators) THEN maxIrr
    ELSE LET s == illuminators[i]
             phased == (s.irr * s.phasePercent) \div 100
             next == IF s.farEnough /\ s.irr > maxIrr /\ phased > maxIrr
                     THEN phased ELSE maxIrr
         IN  MaxSecondaryIrradiance(illuminators, i + 1, next)

\* The lights before sorting: the first MaxLights suns and, if there is room
\* left for it, the brightest secondary illuminator.
GatherLights(suns, illuminators) ==
    LET n == Min(MaxLights, Len(suns))
        primary == [i \in 1..n |-> Light(suns[i], TRUE)]
        maxIrr == MaxSecondaryIrradiance(illuminators, 1, 0)
    IN  IF illuminators # <<>> /\ n < MaxLights - 1 /\ maxIrr > 0
        THEN Append(primary, Light(maxIrr, FALSE))
        ELSE primary

\* LightIrradiancePredicate
BrighterLight(l0, l1) == l0.irradiance > l1.irradiance

\* Variant of SortedLights: the lights stay in the order they were gathered.
UnsortedLights(lights) == {lights}
\* The lights after the sort by brightness: a swap for two lights, any order
\* std::sort may leave for more.
SortedLights(lights) ==
    IF Len(lights) = 2
    THEN {IF lights[1].irradiance < lights[2].irradiance
          THEN <<lights[2], lights[1]>> ELSE lights}
    ELSE {r \in Reordered(lights) :
             \A i, j \in 1..Len(r) : i < j => ~BrighterLight(r[j], r[i])}

Sum(lights) ==
    LET F[i \in 0..Len(lights)] ==
            IF i = 0 THEN 0 ELSE F[i - 1] + lights[i].irradiance
    IN  F[Len(lights)]

\* pow(irradiance / totalIrradiance, gamma), gamma = log(1/255) / log(1/10000),
\* about 3/5: in sixteenths, rounded down.
GammaScaled(irradiance, total) ==
    LET x == (irradiance * 16) \div total
    IN  CHOOSE y \in 0..16 :
            /\ y * y * y * y * y <= x * x * x * (16 * 16)
            /\ (y + 1) * (y + 1) * (y + 1) * (y + 1) * (y + 1) > x * x * x * (16 * 16)

\* The lights bright enough to show: the sorted lights up to the first one
\* at or below 1/10000 of the total irradiance.
RECURSIVE VisibleLights(_, _, _)
VisibleLights(lights, i, total) ==
    IF i <= Len(lights) /\ lights[i].irradiance * (10 * 1000) > total
    THEN VisibleLights(lights, i + 1, total)
    ELSE i - 1

\* The LightingState after setupObjectLighting with the lights sorted as
\* sorted: a state without suns is left as it was constructed.
LitState(sorted) ==
    LET total == Sum(sorted)
        n == VisibleLights(sorted, 1, total)
    IN  [NoShadows EXCEPT
            !.lights = [i \in 1..Len(sorted) |->
                           IF i <= n
                           THEN [sorted[i] EXCEPT
                                    !.irradiance = GammaScaled(sorted[i].irradiance, total)]
                           ELSE sorted[i]],
            !.nLights = n]

SetupObjectLighting(suns, illuminators) ==
    IF Len(suns) = 0 THEN {NoShadows}
    ELSE {LitState(sorted) : sorted \in SortedLights(GatherLights(suns, illuminators))}

(***************************************************************************)
(* draw(), step by step.                                                   *)
(***************************************************************************)
SubsetsUpTo(S, n) == {T \in SUBSET S : Cardinality(T) <= n}

\* The elements of pool at the indices ids, in index order.
Pick(pool, ids) ==
    LET keep == [i \in 1..Len(pool) |-> i \in ids]
        F[i \in 0..Len(pool)] ==
            IF i = 0 THEN <<>>
            ELSE IF keep[i] THEN Append(F[i - 1], pool[i]) ELSE F[i - 1]
    IN  F[Len(pool)]

\* Variant: a list that keeps its entries at the entry of draw().
KeptAtEntry(list) == list
\* vector::clear() at the entry of draw().
ClearedAtEntry(list) == SubSeq(list, 1, 0)

\* Entry of draw(): the frame counter advances, the observer's time is read
\* and the per-frame lists are cleared. The partitions of the frame before are
\* dead from here on: nothing reads them before depthPartitions.clear(), and
\* zNearest is a local of draw(); they are dropped at this point.
DrawBegin(t) ==
    /\ pc = "idle"
    /\ UNCHANGED bodyVars
    /\ frameCount < MaxFrames
    /\ frameCount' = frameCount + 1
    /\ now' = t
    /\ depthSortedAnnotations' = ClearedAtEntry(depthSortedAnnotations)
    /\ renderList' = ClearedAtEntry(renderList)
    /\ orbitPathList' = ClearedAtEntry(orbitPathList)
    /\ depthPartitions' = <<>>
    /\ zNearest' = 0
    /\ frameInserts' = 0
    /\ frameScans' = 0
    /\ currentIntervalIndex' = -1
    /\ entryIndex' = 0
    /\ annotation' = 1
    /\ orbitIndex' = 1
    /\ renderLog' = <<>>
    /\ objectAnnotationCalls' = NoCalls
    /\ UNCHANGED <<objectAnnotationSetOpen, objectAnnotations>>
    /\ lightSourceList' = ClearedAtEntry(lightSourceList)
    /\ pc' = "collect"
    /\ UNCHANGED <<orbitCache, lastOrbitCacheFlush, detailOptions, lastCall,
                   lastTime, maxFrameInserts, font, depthRange,
                   foregroundAnnotations, backgroundAnnotations>>

\* addForegroundAnnotation, addBackgroundAnnotation and addSortedAnnotation
\* called by the application between two frames.
AddAnnotation(queue, a) ==
    /\ pc = "idle"
    /\ UNCHANGED bodyVars
    /\ \/ /\ queue = "foreground"
          /\ Len(foregroundAnnotations) < MaxQueued
          /\ foregroundAnnotations' = Append(foregroundAnnotations, "marker")
          /\ UNCHANGED <<backgroundAnnotations, depthSortedAnnotations>>
       \/ /\ queue = "background"
          /\ Len(backgroundAnnotations) < MaxQueued
          /\ backgroundAnnotations' = Append(backgroundAnnotations, "marker")
          /\ UNCHANGED <<foregroundAnnotations, depthSortedAnnotations>>
       \/ /\ queue = "sorted"
          /\ Len(depthSortedAnnotations) < MaxAnnotations + MaxQueued
          /\ depthSortedAnnotations' = Append(depthSortedAnnotations, a)
          /\ UNCHANGED <<foregroundAnnotations, backgroundAnnotations>>
    /\ UNCHANGED <<pc, frameCount, renderList, orbitPathList, depthPartitions,
                   zNearest, frameInserts, maxFrameInserts, frameScans, font, lightSourceList>>
    /\ UNCHANGED orbitVars
    /\ UNCHANGED loopVars

\* renderAnnotations over a whole queue: nothing is drawn without the font.
DrawnAnnotations(queue, kind, hasFont) ==
    IF hasFont THEN [j \in DOMAIN queue |-> Event(-1, kind, queue[j])] ELSE <<>>

\* buildRenderLists meets a body with a frame tree of children and decides
\* whether to traverse it.
VisitSubtree(s) ==
    /\ pc = "collect"
    /\ s.intersects => s.inCone
    /\ subtree' = [met |-> TRUE, tree |-> s, traversed |-> TraverseSubtree(s)]
    /\ UNCHANGED <<pc, frameCount, frameInserts, maxFrameInserts, frameScans, font, lightingState,
                   lastEclipse>>
    /\ UNCHANGED drawVars
    /\ UNCHANGED orbitVars
    /\ UNCHANGED loopVars
    /\ UNCHANGED queueVars

\* renderPlanet tests one more body of the system for an eclipse of the body
\* it is rendering.
TestEclipseCall(c) ==
    /\ pc = "render"
    /\ currentIntervalIndex >= 0
    /\ Len(lightingState.shadows) < MaxShadows
    /\ LET done == TestEclipse(lightingState, c, ReceiverRadius)
       IN  /\ lightingState' = done.lights
           /\ lastEclipse' = [called |-> TRUE, caster |-> c,
                              returned |-> done.returned, before |-> lightingState]
    /\ UNCHANGED <<pc, frameCount, frameInserts, maxFrameInserts, frameScans, font, subtree>>
    /\ UNCHANGED drawVars
    /\ UNCHANGED orbitVars
    /\ UNCHANGED loopVars
    /\ UNCHANGED queueVars

\* renderObject and its like start on an object of the interval: a fresh
\* LightingState is set up from the light sources of the frame, each given by
\* the irradiance it has at the object, and the secondary illuminators near
\* the object.
SetupObjectLightingCall(illuminatorLists) ==
    /\ pc = "render"
    /\ currentIntervalIndex >= 0
    /\ \E illuminators \in illuminatorLists :
           lightingState' \in SetupObjectLighting(lightSourceList, illuminators)
    /\ UNCHANGED <<pc, frameCount, frameInserts, maxFrameInserts, frameScans, font, subtree,
                   lastEclipse>>
    /\ UNCHANGED drawVars
    /\ UNCHANGED orbitVars
    /\ UNCHANGED loopVars
    /\ UNCHANGED queueVars

\* setupLightSources, renderStars, buildRenderLists, buildOrbitLists and the
\* label passes fill the lists from the scene. The background annotations are
\* drawn and their queue is cleared on the way; the cursor of a selection
\* farther than a light year goes through the background queue and leaves its
\* occluded twin in the foreground queue.
BuildLists(entryIds, pathIds, annotationIds, lightLists, cursors) ==
    /\ pc = "collect"
    /\ UNCHANGED bodyVars
    /\ \E es \in SubsetsUpTo(entryIds, MaxEntries),
          ps \in SubsetsUpTo(pathIds, MaxOrbitPaths),
          as \in SubsetsUpTo(annotationIds, MaxAnnotations),
          lights \in lightLists, cursor \in cursors :
          LET added == IF cursor THEN <<"cursor">> ELSE <<>>
          IN  /\ renderList' = Pick(RenderPool, es)
              /\ orbitPathList' = Pick(OrbitPathPool, ps)
              /\ depthSortedAnnotations' = Pick(AnnotationPool, as)
              /\ lightSourceList' = lights
              /\ renderLog' = renderLog
                     \o DrawnAnnotations(backgroundAnnotations \o added, "background", font)
              /\ backgroundAnnotations' = <<>>
              /\ foregroundAnnotations' = foregroundAnnotations \o added
    /\ pc' = "cull"
    /\ UNCHANGED <<frameCount, depthPartitions, zNearest, frameInserts,
                   maxFrameInserts, frameScans, font, currentIntervalIndex, entryIndex,
                   annotation, depthRange, orbitIndex, labelVars>>
    /\ UNCHANGED orbitVars

\* Frustum culling of the render list, the three sorts and the construction
\* of the depth partitions.
CullAndPartition ==
    /\ pc = "cull"
    /\ UNCHANGED bodyVars
    /\ \E rl \in SortedRenderLists(CullList(renderList)),
          ol \in SortedRenderLists(orbitPathList),
          al \in SortedAnnotations(depthSortedAnnotations) :
          LET built == BuildPartitions(rl, ol, al)
          IN  /\ renderList' = rl
              /\ orbitPathList' = ol
              /\ depthSortedAnnotations' = al
              /\ depthPartitions' = built.parts
              /\ zNearest' = built.zNearest
              /\ entryIndex' = Len(rl)
    /\ annotation' = 1
    /\ pc' = "render"
    /\ UNCHANGED <<frameCount, frameInserts, maxFrameInserts, frameScans, font,
                   currentIntervalIndex, depthRange, orbitIndex, renderLog, labelVars>>
    /\ UNCHANGED orbitVars
    /\ UNCHANGED queueVars

\* renderLocations, reached from renderItem in a pass of the current
\* interval, labels a location of the body with id `body`.
AddObjectAnnotationCall ==
    /\ pc = "render"
    /\ currentIntervalIndex >= 0
    /\ Len(objectAnnotations) < MaxObjectAnnotations
    /\ \E i \in 1..Len(renderList) :
           LET added == AddObjectAnnotation(objectAnnotationSetOpen, objectAnnotations,
                                            renderList[i].id)
           IN  /\ objectAnnotations' = added.annotations
               /\ objectAnnotationCalls' =
                      [objectAnnotationCalls EXCEPT !.held = @ /\ added.held]
    /\ UNCHANGED <<pc, frameCount, frameInserts, maxFrameInserts, frameScans, font,
                   currentIntervalIndex, entryIndex, annotation, depthRange, orbitIndex,
                   renderLog, objectAnnotationSetOpen>>
    /\ UNCHANGED drawVars
    /\ UNCHANGED orbitVars
    /\ UNCHANGED queueVars
    /\ UNCHANGED bodyVars

\* Whether orbit path p overlaps depth partition d (the test of the interval loop)
OverlapsInterval(p, d) ==
    /\ -p.centerZ - p.radius < -d.farZ
    /\ -p.centerZ + p.radius > -d.nearZ

\* The interval's loop over orbitPathList: the first path from position i on
\* that overlaps partition d, Len(orbits) + 1 when there is none.
RECURSIVE NextOverlapping(_, _, _)
NextOverlapping(orbits, i, d) ==
    IF i > Len(orbits) \/ OverlapsInterval(orbits[i], d) THEN i
    ELSE NextOverlapping(orbits, i + 1, d)

\* The loop over orbitPathList has come to its end in the current interval
\* (no interval has begun: nothing to do).
OrbitLoopDone ==
    currentIntervalIndex >= 0 =>
        NextOverlapping(orbitPathList, orbitIndex,
                        depthPartitions[currentIntervalIndex + 1]) > Len(orbitPathList)

\* The interval loop moves on: the transparent pass and the annotations of
\* the current interval, if one has begun, then the head of the next interval
\* (currentIntervalIndex, glDepthRange) and its opaque pass.
RenderInterval ==
    /\ pc = "render"
    /\ lightingState' = NoShadows
    /\ lastEclipse' = NoEclipse
    /\ UNCHANGED subtree
    /\ currentIntervalIndex + 1 < Len(depthPartitions)
    /\ OrbitLoopDone
    /\ orbitIndex' = 1
    /\ LET done == FinishInterval(renderList, depthPartitions, depthSortedAnnotations,
                                  currentIntervalIndex, entryIndex, annotation, font)
           interval == currentIntervalIndex + 1
           d == depthPartitions[interval + 1]
           first == IF currentIntervalIndex < 0 THEN entryIndex
                    ELSE PassEnd(renderList, entryIndex,
                                 depthPartitions[currentIntervalIndex + 1])
           ended == EndOfInterval(objectAnnotationSetOpen, objectAnnotations,
                                  currentIntervalIndex, font)
           begun == BeginObjectAnnotations(ended.open, ended.annotations)
       IN  /\ currentIntervalIndex' = interval
           /\ depthRange' = DepthRange(interval, Len(depthPartitions))
           /\ entryIndex' = first
           /\ annotation' = done.annotation
           /\ objectAnnotationSetOpen' = begun.open
           /\ objectAnnotations' = begun.annotations
           /\ objectAnnotationCalls' =
                  [begun |-> objectAnnotationCalls.begun + 1,
                   ended |-> objectAnnotationCalls.ended + ended.calls,
                   held |-> objectAnnotationCalls.held /\ begun.held]
           /\ renderLog' = renderLog \o done.log
                           \o LabelItems(ended.drawn, currentIntervalIndex)
                           \o PassItems(renderList, first, PassEnd(renderList, first, d),
                                        interval, "opaque")
    /\ UNCHANGED <<pc, frameCount, frameInserts, maxFrameInserts, frameScans, font>>
    /\ UNCHANGED drawVars
    /\ UNCHANGED orbitVars
    /\ UNCHANGED queueVars

(***************************************************************************)
(* Orbits and their sampled paths. Times are integers; an orbit is         *)
(* [isPeriodic, period, begin, end], the last two its valid range          *)
(* (begin = end: no finite range).                                         *)
(***************************************************************************)
Orbit(isPeriodic, period, begin, end) ==
    [isPeriodic |-> isPeriodic, period |-> period, begin |-> begin, end |-> end]

Orbits == <<
    Orbit(TRUE, 100, 0, 0),     \* 1: planet, period 100
    Orbit(FALSE, 60, 0, 60),    \* 2: spacecraft trajectory valid over [0, 60]
    Orbit(FALSE, 20, 0, 0),     \* 3: aperiodic, no finite valid range
    Orbit(TRUE, 50, 0, 0),      \* 4: moon, period 50
    Orbit(FALSE, 40, -20, 20)   \* 5: trajectory valid over [-20, 20]
>>

\* Spacing of the samples an orbit hands out.
SampleStep == 4 * 5

\* Orbit::sample(startTime, endTime, proc): the times handed to proc, both
\* ends included.
RECURSIVE OrbitSample(_, _)
OrbitSample(startTime, endTime) ==
    IF startTime >= endTime THEN <<startTime>>
    ELSE IF startTime + SampleStep >= endTime THEN <<startTime, endTime>>
    ELSE <<startTime>> \o OrbitSample(startTime + SampleStep, endTime)

\* Variant of AddSample that also takes a sample at the time of the first or
\* the last one.
AddSampleAtOrBeyond(samples, t) ==
    IF samples = <<>> \/ t >= samples[Len(samples)] THEN Append(samples, t)
    ELSE IF t <= samples[1] THEN <<t>> \o samples
    ELSE samples

\* CurvePlot::addSample: appended after the last sample or put before the
\* first; a sample within the current range is dropped.
AddSample(samples, t) ==
    IF samples = <<>> \/ t > samples[Len(samples)] THEN Append(samples, t)
    ELSE IF t < samples[1] THEN <<t>> \o samples
    ELSE samples

\* CurvePlot::removeSamplesBefore and removeSamplesAfter. The threshold is
\* given doubled (t2 = 2 * t), so that t * (1 +- 1e-15) can be told from t.
RemoveSamplesBefore(samples, t2) == SelectSeq(samples, LAMBDA x : ~(2 * x < t2))
RemoveSamplesAfter(samples, t2) == SelectSeq(samples, LAMBDA x : ~(2 * x > t2))

Sign(x) == IF x > 0 THEN 1 ELSE IF x < 0 THEN -1 ELSE 0
\* 2 * (x * (1.0 + 1.0e-15)) and 2 * (x * (1.0 - 1.0e-15))
NudgedUp(x) == 2 * x + Sign(x)
NudgedDown(x) == 2 * x - Sign(x)

\* OrbitSampler::insertForward, insertBackward
RECURSIVE InsertForward(_, _)
InsertForward(new, samples) ==
    IF new = <<>> THEN samples
    ELSE InsertForward(Tail(new), AddSample(samples, Head(new)))

RECURSIVE InsertBackward(_, _)
InsertBackward(new, samples) ==
    IF new = <<>> THEN samples
    ELSE InsertBackward(SubSeq(new, 1, Len(new) - 1),
                        AddSample(samples, new[Len(new)]))

(***************************************************************************)
(* renderOrbit.                                                            *)
(***************************************************************************)
\* detailOptions: orbitWindowEnd and orbitPeriodsShown in tenths of a period
DefaultOptions == [orbitWindowEnd |-> 5, orbitPeriodsShown |-> 10]

\* period * fraction, the fraction in tenths
Fraction(period, tenths) == (period * tenths) \div 10

\* Variant of WindowSlack: no slack around the display window.
NoSlack(period) == period - period

\* const double WindowSlack = 0.2
WindowSlack(period) == Fraction(period, 2)

\* startTime of the first sampling, on a cache miss
MissStartTime(o, t) ==
    IF ~o.isPeriodic
    THEN IF o.begin # o.end THEN o.begin ELSE t
    ELSE t - o.period

\* nSamples as the miss branch computes it; period * 100.0 is truncated to
\* an int. The value is not handed to Orbit::sample.
OrbitPathSamplePoints == 100
MinAperiodicSamples == 100
MaxAperiodicSamples == 1000
NSamples(o) ==
    IF o.isPeriodic THEN OrbitPathSamplePoints
    ELSE IF o.begin # o.end
    THEN Max(Min(o.period * 100, MaxAperiodicSamples), MinAperiodicSamples)
    ELSE 0

\* The samples of a new CurvePlot
MissSamples(o, t) ==
    InsertForward(OrbitSample(MissStartTime(o, t), MissStartTime(o, t) + o.period),
                  <<>>)

\* Variants of EvictOld: a scan that evicts nothing, and a scan that spares
\* an entry for one frame more.
EvictNone(cache, frame) == cache

EvictOlder(cache, frame) ==
    LET keep == {k \in DOMAIN cache :
                    ~(frame - cache[k].lastUsed > OrbitCacheRetireAge + 1)}
    IN  [k \in keep |-> cache[k]]

\* The eviction scan: entries unused for more than OrbitCacheRetireAge frames go.
EvictOld(cache, frame) ==
    LET keep == {k \in DOMAIN cache :
                    ~(frame - cache[k].lastUsed > OrbitCacheRetireAge)}
    IN  [k \in keep |-> cache[k]]

\* Variant of ScanDue: every miss on a full cache scans.
ScanDueWhenFull(cache, flushed, frame) ==
    Cardinality(DOMAIN cache) > OrbitCacheCullThreshold

\* Whether a cache miss runs the eviction scan
ScanDue(cache, flushed, frame) ==
    /\ Cardinality(DOMAIN cache) > OrbitCacheCullThreshold
    /\ flushed # frame

\* The display window of a periodic orbit and the window the cache is kept to
WindowEndTime(o, t, opts) == t + Fraction(o.period, opts.orbitWindowEnd)
WindowStartTime(o, t, opts) ==
    WindowEndTime(o, t, opts) - Fraction(o.period, opts.orbitPeriodsShown)
NewWindowStart(o, t, opts) == WindowStartTime(o, t, opts) - WindowSlack(o.period)
NewWindowEnd(o, t, opts) == WindowEndTime(o, t, opts) + WindowSlack(o.period)

\* The window slid backward: samples after the new window go, the first
\* sample is trimmed, the orbit is sampled from the new start. After
\* removeSamplesAfter has emptied the plot, its startTime() is the front of
\* an empty container: whatever value that read yields, removeSamplesBefore
\* leaves the empty plot as it is.
SlideBackward(samples, o, t, opts) ==
    LET cut == RemoveSamplesAfter(samples, 2 * NewWindowEnd(o, t, opts))
        trimmed == IF cut = <<>> THEN cut
                   ELSE RemoveSamplesBefore(cut, NudgedUp(cut[1]))
        request == <<NewWindowStart(o, t, opts),
                     Min(samples[1], NewWindowEnd(o, t, opts))>>
    IN  [samples |-> InsertBackward(OrbitSample(request[1], request[2]), trimmed),
         requests |-> <<request>>]

\* Variant of SlideForward that drops the cached samples and samples the
\* whole new window again.
SlideForwardResample(samples, o, t, opts) ==
    LET request == <<NewWindowStart(o, t, opts), NewWindowEnd(o, t, opts)>>
    IN  [samples |-> InsertForward(OrbitSample(request[1], request[2]), <<>>),
         requests |-> <<request>>]

\* The window slid forward, likewise.
SlideForward(samples, o, t, opts) ==
    LET cut == RemoveSamplesBefore(samples, 2 * NewWindowStart(o, t, opts))
        trimmed == IF cut = <<>> THEN cut
                   ELSE RemoveSamplesAfter(cut, NudgedDown(cut[Len(cut)]))
        request == <<Max(samples[Len(samples)], NewWindowStart(o, t, opts)),
                     NewWindowEnd(o, t, opts)>>
    IN  [samples |-> InsertForward(OrbitSample(request[1], request[2]), trimmed),
         requests |-> <<request>>]

\* The update of a non-empty cached path
UpdateWindow(samples, o, t, opts) ==
    IF ~o.isPeriodic THEN [samples |-> samples, requests |-> <<>>]
    ELSE IF WindowStartTime(o, t, opts) < samples[1]
    THEN SlideBackward(samples, o, t, opts)
    ELSE IF WindowEndTime(o, t, opts) > samples[Len(samples)]
    THEN SlideForward(samples, o, t, opts)
    ELSE [samples |-> samples, requests |-> <<>>]

\* lastCall: the orbit and time of the frame's last call, its kind ("miss", "hit", or
\* "noshader" when it returned at once), whether it ran the eviction scan,
\* the <<startTime, endTime>> of each Orbit::sample it made, and the value its
\* local nSamples had on a miss.
NoCall ==
    [orbit |-> 0, t |-> 0, kind |-> "none", scanned |-> FALSE, requests |-> <<>>,
     nSamples |-> 0]

\* renderOrbit for orbit k at time now; prog is whether the shader manager
\* has the PerVertexColor shader.
RenderOrbit(k, prog) ==
    LET o == Orbits[k]
        hit == k \in DOMAIN orbitCache
        scan == ~hit /\ ScanDue(orbitCache, lastOrbitCacheFlush, frameCount)
        base == IF scan THEN EvictOld(orbitCache, frameCount) ELSE orbitCache
        first == IF hit THEN orbitCache[k].samples ELSE MissSamples(o, now)
        upd == IF first = <<>> THEN [samples |-> first, requests |-> <<>>]
               ELSE UpdateWindow(first, o, now, detailOptions)
        plot == [samples |-> upd.samples, lastUsed |-> frameCount]
        missRequest == <<MissStartTime(o, now), MissStartTime(o, now) + o.period>>
    IN  IF ~prog
        THEN /\ lastCall' = [NoCall EXCEPT !.orbit = k, !.t = now, !.kind = "noshader"]
             /\ UNCHANGED <<orbitCache, lastOrbitCacheFlush, lastTime,
                            frameInserts, maxFrameInserts, frameScans>>
        ELSE /\ orbitCache' = [j \in DOMAIN base \cup {k} |->
                                  IF j = k THEN plot ELSE base[j]]
             /\ lastOrbitCacheFlush' = IF scan THEN frameCount ELSE lastOrbitCacheFlush
             /\ frameInserts' = IF hit THEN frameInserts ELSE frameInserts + 1
             /\ maxFrameInserts' = Max(maxFrameInserts, frameInserts')
             /\ frameScans' = IF scan THEN frameScans + 1 ELSE frameScans
             /\ lastTime' = [j \in DOMAIN base \cup {k} |->
                                IF j = k THEN now ELSE lastTime[j]]
             /\ lastCall' = [orbit |-> k, t |-> now,
                             kind |-> IF hit THEN "hit" ELSE "miss",
                             scanned |-> scan,
                             requests |-> IF hit THEN upd.requests
                                          ELSE <<missRequest>> \o upd.requests,
                             nSamples |-> IF hit THEN 0 ELSE NSamples(o)]

\* The interval loop of draw() renders the next orbit path that overlaps the
\* current interval; progs is what the shader manager may answer when asked
\* for the orbit shader.
RenderOrbitCall(progs) ==
    /\ pc = "render"
    /\ UNCHANGED bodyVars
    /\ currentIntervalIndex >= 0
    /\ LET i == NextOverlapping(orbitPathList, orbitIndex,
                                depthPartitions[currentIntervalIndex + 1])
       IN  /\ i <= Len(orbitPathList)
           /\ \E prog \in progs : RenderOrbit(orbitPathList[i].orbit, prog)
           /\ orbitIndex' = i + 1
           /\ renderLog' = Append(renderLog, Event(currentIntervalIndex, "orbit",
                                                   orbitPathList[i].orbit))
    /\ UNCHANGED <<pc, frameCount, now, detailOptions, font, currentIntervalIndex,
                   entryIndex, annotation, depthRange, labelVars>>
    /\ UNCHANGED drawVars
    /\ UNCHANGED queueVars

\* Variant: a cache that keeps its entries.
KeptCache(cache) == cache
\* OrbitCache::clear()
ClearedCache(cache) == [k \in {} |-> cache[k]]

\* invalidateOrbitCache(), called between frames
InvalidateOrbitCache ==
    /\ pc = "idle"
    /\ UNCHANGED bodyVars
    /\ orbitCache # <<>>
    /\ orbitCache' = ClearedCache(orbitCache)
    /\ lastTime' = <<>>
    /\ UNCHANGED <<pc, frameCount, lastOrbitCacheFlush, now, detailOptions,
                   lastCall, frameInserts, maxFrameInserts, frameScans, font>>
    /\ UNCHANGED drawVars
    /\ UNCHANGED loopVars
    /\ UNCHANGED queueVars

\* The last interval's transparent pass and annotations; the interval loop
\* is over, the depth range is reset and draw() returns. The record of the
\* frame's last renderOrbit call ends with the frame.
EndFrame ==
    /\ pc = "render"
    /\ subtree' = NoSubtree
    /\ lightingState' = NoShadows
    /\ lastEclipse' = NoEclipse
    /\ currentIntervalIndex + 1 = Len(depthPartitions)
    /\ OrbitLoopDone
    /\ orbitIndex' = 1
    /\ LET done == FinishInterval(renderList, depthPartitions, depthSortedAnnotations,
                                  currentIntervalIndex, entryIndex, annotation, font)
           ended == EndOfInterval(objectAnnotationSetOpen, objectAnnotations,
                                  currentIntervalIndex, font)
       IN  /\ renderLog' = renderLog \o done.log
                           \o LabelItems(ended.drawn, currentIntervalIndex)
                           \o DrawnAnnotations(foregroundAnnotations, "foreground", font)
           /\ objectAnnotationSetOpen' = ended.open
           /\ objectAnnotations' = ended.annotations
           /\ objectAnnotationCalls' =
                  [objectAnnotationCalls EXCEPT !.ended = @ + ended.calls]
           /\ annotation' = done.annotation
           /\ entryIndex' = PassEnd(renderList, entryIndex,
                                    depthPartitions[currentIntervalIndex + 1])
    /\ depthRange' = <<0, One>>
    /\ foregroundAnnotations' = <<>>
    /\ pc' = "idle"
    /\ lastCall' = NoCall
    /\ UNCHANGED <<frameCount, frameInserts, maxFrameInserts, frameScans, font,
                   currentIntervalIndex, lightSourceList, backgroundAnnotations>>
    /\ UNCHANGED drawVars
    /\ UNCHANGED <<orbitCache, lastOrbitCacheFlush, now, detailOptions, lastTime>>

(***************************************************************************)
(* Specifications.                                                         *)
(***************************************************************************)
InitWith(options, fonts) ==
    /\ font \in fonts
    /\ currentIntervalIndex = -1
    /\ entryIndex = 0
    /\ annotation = 1
    /\ orbitIndex = 1
    /\ objectAnnotationSetOpen = FALSE
    /\ objectAnnotations = <<>>
    /\ objectAnnotationCalls = NoCalls
    /\ depthRange = <<0, One>>
    /\ renderLog = <<>>
    /\ lightSourceList = <<>>
    /\ foregroundAnnotations = <<>>
    /\ backgroundAnnotations = <<>>
    /\ subtree = NoSubtree
    /\ lightingState = NoShadows
    /\ lastEclipse = NoEclipse
    /\ pc = "idle"
    /\ frameCount = 0
    /\ renderList = <<>>
    /\ orbitPathList = <<>>
    /\ depthSortedAnnotations = <<>>
    /\ depthPartitions = <<>>
    /\ zNearest = 0
    /\ orbitCache = <<>>
    /\ lastOrbitCacheFlush = 0
    /\ now = 0
    /\ detailOptions \in options
    /\ lastCall = NoCall
    /\ lastTime = <<>>
    /\ frameInserts = 0
    /\ maxFrameInserts = 0
    /\ frameScans = 0

\* The light source lists and selection cursors of a scene with one sun and
\* nothing selected.
OneSun == {<<1>>}
NoCursor == {FALSE}
\* A shader manager without the shader of the orbit paths: renderOrbit returns
\* at once.
NoOrbitShader == {FALSE}

\* Frames over the scene pools: culling, sorting and depth partitioning.
Init == InitWith({DefaultOptions}, BOOLEAN)
Next ==
    \/ DrawBegin(now)
    \/ BuildLists(DOMAIN RenderPool, 1..3, DOMAIN AnnotationPool, OneSun, NoCursor)
    \/ CullAndPartition
    \/ RenderInterval
    \/ RenderOrbitCall(NoOrbitShader)
    \/ EndFrame
Spec == Init /\ [][Next]_vars

\* Frames that draw only orbit paths, the simulation time moving between
\* frames, under several orbit window settings.
Times == {-150, -60, 0, 60, 150}
WindowOptions ==
    {DefaultOptions,
     [orbitWindowEnd |-> 5, orbitPeriodsShown |-> 20],
     [orbitWindowEnd |-> 0, orbitPeriodsShown |-> 10],
     [orbitWindowEnd |-> 10, orbitPeriodsShown |-> 5]}
InitOrbit == InitWith(WindowOptions, {TRUE})
NextOrbit ==
    \/ \E t \in Times : DrawBegin(t)
    \/ BuildLists({}, 1..2, {}, OneSun, NoCursor)
    \/ CullAndPartition
    \/ RenderInterval
    \/ RenderOrbitCall(BOOLEAN)
    \/ EndFrame
SpecOrbit == InitOrbit /\ [][NextOrbit]_vars

\* Frames that draw many orbit paths at a fixed time: the life of cache entries.
\* Frames with annotations queued by the application between them, scenes
\* with and without a sun and a selection cursor.
NextQueues ==
    \/ DrawBegin(now)
    \/ \E queue \in {"foreground", "background", "sorted"}, a \in {AnnotationPool[3]} :
          AddAnnotation(queue, a)
    \/ BuildLists(1..2, 1..1, 1..2, {<<>>, <<1>>}, BOOLEAN)
    \/ CullAndPartition
    \/ RenderInterval
    \/ RenderOrbitCall(NoOrbitShader)
    \/ EndFrame
SpecQueues == Init /\ [][NextQueues]_vars

\* The interval loop over scenes of up to MaxBodies spheres, one behind the
\* other and 1 km apart: each gets an interval of its own and one for the gap
\* behind it, and the front interval is added. Init is the state in which
\* draw() has culled, sorted and partitioned such a scene.
Sphere(i) ==
    Obj(i, -3 * i * Km, 1 * Km, 2, i % 2 = 0, -(3 * i - 1) * Km, TRUE, 1 * Km, FALSE, 0, TRUE)
InitDepthRange ==
    /\ \E m \in 0..MaxBodies :
          /\ renderList = CullList([i \in 1..m |-> Sphere(i)])
          /\ depthPartitions = BuildPartitions(renderList, <<>>, <<>>).parts
          /\ zNearest = BuildPartitions(renderList, <<>>, <<>>).zNearest
          /\ entryIndex = m
    /\ pc = "render"
    /\ frameCount = 1
    /\ font = TRUE
    /\ currentIntervalIndex = -1
    /\ annotation = 1
    /\ orbitIndex = 1
    /\ objectAnnotationSetOpen = FALSE
    /\ objectAnnotations = <<>>
    /\ objectAnnotationCalls = NoCalls
    /\ depthRange = <<0, One>>
    /\ renderLog = <<>>
    /\ lightSourceList = <<1>>
    /\ foregroundAnnotations = <<>>
    /\ backgroundAnnotations = <<>>
    /\ subtree = NoSubtree
    /\ lightingState = NoShadows
    /\ lastEclipse = NoEclipse
    /\ orbitPathList = <<>>
    /\ depthSortedAnnotations = <<>>
    /\ orbitCache = <<>>
    /\ lastOrbitCacheFlush = 0
    /\ now = 0
    /\ detailOptions = DefaultOptions
    /\ lastCall = NoCall
    /\ lastTime = <<>>
    /\ frameInserts = 0
    /\ maxFrameInserts = 0
    /\ frameScans = 0
NextDepthRange ==
    \/ RenderInterval
    \/ EndFrame
SpecDepthRange == InitDepthRange /\ [][NextDepthRange]_vars

InitCache == InitWith({DefaultOptions}, {TRUE})

\* Frames in which buildRenderLists meets frame trees of every kind.
Subtrees ==
    {Subtree(far, bright, largest, intersects, illuminators, inCone) :
        far \in BOOLEAN, bright \in BOOLEAN, largest \in {0, 1, 5, 20},
        intersects \in BOOLEAN, illuminators \in BOOLEAN, inCone \in BOOLEAN}
NextTraverse ==
    \/ DrawBegin(now)
    \/ \E s \in Subtrees : VisitSubtree(s)
    \/ BuildLists(1..2, {}, {}, OneSun, NoCursor)
    \/ CullAndPartition
    \/ RenderInterval
    \/ EndFrame
SpecTraverse == InitCache /\ [][NextTraverse]_vars

\* Frames in which the bodies rendered are tested against casters of every
\* kind: just below and at 0.005 of the receiver's radius.
Casters ==
    {Caster(radius, radius, geometry, extant, ellipsoid, rings, inShadow, deep, ringsReach) :
        radius \in {4, 5}, geometry \in BOOLEAN, extant \in BOOLEAN,
        ellipsoid \in BOOLEAN, rings \in BOOLEAN, inShadow \in BOOLEAN,
        deep \in BOOLEAN, ringsReach \in BOOLEAN}
NextEclipse ==
    \/ DrawBegin(now)
    \/ BuildLists(1..1, {}, {}, OneSun, NoCursor)
    \/ CullAndPartition
    \/ RenderInterval
    \/ \E c \in Casters : TestEclipseCall(c)
    \/ EndFrame
SpecEclipse == InitCache /\ [][NextEclipse]_vars

\* Frames in which the objects rendered are lit by no sun, by a few and by
\* more than MaxLights of them, bright and faint, with and without planetshine.
SunIrradiances == {1, 40, 40 * 1000}
SunLists == UNION {[1..n -> SunIrradiances] : n \in 0..MaxLights + 1}
Illuminators ==
    {Illuminator(farEnough, irr, phasePercent) :
        farEnough \in BOOLEAN, irr \in {50, 90 * 1000}, phasePercent \in {50, 100}}
IlluminatorLists == UNION {[1..n -> Illuminators] : n \in 0..2}
NextLighting ==
    \/ DrawBegin(now)
    \/ BuildLists(1..1, {}, {}, SunLists, NoCursor)
    \/ CullAndPartition
    \/ RenderInterval
    \/ SetupObjectLightingCall(IlluminatorLists)
    \/ EndFrame
SpecLighting == InitCache /\ [][NextLighting]_vars

\* Frames in which the bodies rendered have locations that are labelled.
NextLabels ==
    \/ DrawBegin(now)
    \/ BuildLists(1..2, {}, {}, OneSun, NoCursor)
    \/ CullAndPartition
    \/ RenderInterval
    \/ AddObjectAnnotationCall
    \/ EndFrame
SpecLabels == InitWith({DefaultOptions}, BOOLEAN) /\ [][NextLabels]_vars

NextCache ==
    \/ DrawBegin(now)
    \/ BuildLists({}, DOMAIN OrbitPathPool, {}, OneSun, NoCursor)
    \/ CullAndPartition
    \/ RenderInterval
    \/ RenderOrbitCall(BOOLEAN)
    \/ EndFrame
    \/ InvalidateOrbitCache
SpecCache == InitCache /\ [][NextCache]_vars

(***************************************************************************)
(* Properties of the depth partitions (checked under Spec).                *)
(***************************************************************************)
Ids(list) == [i \in 1..Len(list) |-> list[i].id]

\* Partition d contains the whole [near, far] extent of entry e.
Contains(d, e) == d.nearZ >= e.nearZ /\ d.farZ <= e.farZ
Holders(e) ==
    {k \in DOMAIN depthPartitions : Contains(depthPartitions[k], e)}

\* The front (last built) partition.
FrontPartition == depthPartitions[Len(depthPartitions)]

\* C1: once draw() has built depthPartitions from the sorted render list,
\* every entry with discSizeInPixels > 1 has its whole [near, far] extent
\* inside exactly one partition.
C1_ExactlyOnePartition ==
    pc = "render" =>
        \A i \in DOMAIN renderList :
            renderList[i].discSizeInPixels > 1 =>
                Cardinality(Holders(renderList[i])) = 1

\* C1, the case that fails: a body 5..10 km away seen from inside a planet
\* with clouds, and an orbit path behind both. The body's extent (near in
\* front of far) lies inside two partitions.
C1_BodyInTwoPartitions ==
    /\ pc = "render"
    /\ Ids(renderList) = <<2, 6>>
    /\ renderList[1].nearZ > renderList[1].farZ
    /\ Cardinality(Holders(renderList[1])) = 2

\* C2: in construction order (partition k farther, k + 1 nearer) the near
\* clip distance of partition k is at least the far clip distance of
\* partition k + 1: adjacent partitions do not overlap in depth.
C2_AdjacentDisjoint ==
    pc = "render" =>
        \A k \in 1..(Len(depthPartitions) - 1) :
            -depthPartitions[k].nearZ >= -depthPartitions[k + 1].farZ

\* C2, the case that fails: a ringed planet in front of a body. The rings
\* reach behind the body, the planet's interval is merged into the body's and
\* then reaches behind the near plane of the gap partition built before it.
C2_RingsOverlapGap ==
    /\ pc = "render"
    /\ Ids(renderList) = <<4, 2>>
    /\ Len(depthPartitions) = 3
    /\ -depthPartitions[1].nearZ < -depthPartitions[2].farZ

\* The scene of C8: three bodies of 2 pixels, disjoint in depth, with far
\* distances 1000 km, 10 km and 1 km.
C8_Scene == pc = "render" /\ Ids(renderList) = <<3, 2, 1>>

\* C8 as stated: the three disjoint entries give three object intervals and
\* one front fill interval, four intervals in all.
C8_FourIntervals == C8_Scene => Len(depthPartitions) = 4

\* C8 amended: the three disjoint entries give seven intervals. Counted from
\* the back, the even ones are the entries' own extents, pairwise disjoint;
\* before each of them lies an interval that fills the gap behind the entry
\* (the first from far distance 1000 km to 1010 km or the farthest orbit
\* path); the last is the front fill interval, from the near plane of the
\* nearest entry to the nearest bound.
C8_SevenIntervals ==
    C8_Scene =>
        /\ Len(depthPartitions) = 7
        /\ \A j \in 1..3 :
              LET e == renderList[4 - j]
              IN  /\ depthPartitions[2 * j].nearZ = e.nearZ
                  /\ depthPartitions[2 * j].farZ = e.farZ
                  /\ depthPartitions[2 * j - 1].nearZ = e.farZ
        /\ depthPartitions[1].farZ <= Scaled(renderList[3].farZ, 101, 100)
        /\ \A j \in 1..2 :
              /\ depthPartitions[2 * j + 1].farZ = depthPartitions[2 * j].nearZ
              /\ -depthPartitions[2 * j].nearZ > -depthPartitions[2 * j + 2].farZ
        /\ FrontPartition.farZ = renderList[1].nearZ
        /\ FrontPartition.nearZ > FrontPartition.farZ

\* C8 witness: the scene partitioned, the farthest gap interval reaching from
\* 1000 km to 1010 km.
C8_Partitioned ==
    /\ C8_Scene
    /\ Len(depthPartitions) = 7
    /\ depthPartitions[1] = Partition(0, -1000 * Km, -1010 * Km)

\* No entry passed culling, no orbit path and no depth-sorted annotation.
NothingToDraw ==
    /\ pc = "render"
    /\ renderList = <<>>
    /\ orbitPathList = <<>>
    /\ depthSortedAnnotations = <<>>

\* C9: with the culled render list, the orbit path list and the depth-sorted
\* annotation list all empty, draw() builds exactly one partition, from near
\* bound 0 to the default far distance.
C9_EmptySceneOnePartition ==
    NothingToDraw => depthPartitions = <<Partition(0, 0, InitialPrevNear)>>

\* C9 witness: a frame in which every collected entry was culled, partitioned.
C9_EmptyScenePartitioned ==
    /\ NothingToDraw
    /\ frameCount > 0
    /\ Len(depthPartitions) = 1

\* Near extent of an orbit path as a distance, not nearer than the closest
\* near plane the renderer uses.
OrbitNearDistance(p) == Max(MinNearPlaneDistance, -(p.centerZ + p.radius))

\* C10: the front partition's near clip distance is no greater than the near
\* extent of the closest orbit path and no greater than the distance of the
\* closest depth-sorted annotation.
C10_NothingClippedInFront ==
    pc = "render" =>
        /\ \A i \in DOMAIN orbitPathList :
              -FrontPartition.nearZ <= OrbitNearDistance(orbitPathList[i])
        /\ \A i \in DOMAIN depthSortedAnnotations :
              -FrontPartition.nearZ <= depthSortedAnnotations[i]

\* C10, the case that fails: a body 500 km away and annotations 45 km and
\* 5 km away. The near plane is put just in front of the annotation at 45 km,
\* the first of the sorted list, and the one at 5 km is in front of the near
\* plane of every partition.
C10_NearAnnotationClipped ==
    /\ pc = "render"
    /\ Ids(renderList) = <<1>>
    /\ orbitPathList = <<>>
    /\ depthSortedAnnotations = <<45 * Km, 5 * Km>>
    /\ -FrontPartition.nearZ = 44955000
    /\ \A k \in DOMAIN depthPartitions : -depthPartitions[k].nearZ > 5 * Km

(***************************************************************************)
(* Properties of renderOrbit's sample window (checked under SpecOrbit).    *)
(***************************************************************************)
\* A step that is a renderOrbit call for orbit k reaching the cache.
CachedCall(k) ==
    /\ pc = "render"
    /\ pc' = "render"
    /\ orbitIndex' > orbitIndex
    /\ lastCall'.orbit = k
    /\ lastCall'.kind \in {"miss", "hit"}

\* A renderOrbit call for cached orbit k whose last call before was made at
\* the same simulation time (in another interval of the frame, or in the frame
\* before with the time standing still).
RepeatedCall(k) ==
    /\ CachedCall(k)
    /\ k \in DOMAIN orbitCache
    /\ k \in DOMAIN lastTime
    /\ lastTime[k] = now

\* C3: whatever the orbit and the window settings, a second renderOrbit call
\* in a row for the same orbit at the same time leaves the cached samples as
\* the first call left them: it removes none and requests none.
C3_RepeatedCallIdempotent ==
    [][\A k \in DOMAIN Orbits :
          RepeatedCall(k) =>
              /\ orbitCache'[k].samples = orbitCache[k].samples
              /\ lastCall'.requests = <<>>]_vars

\* C3, the case that fails: period 100, two periods shown, t = 0. The first
\* call extends the new plot backward only; the second call, a cache hit at
\* the same time, samples the orbit over [0, 70].
C3_SecondCallSamples ==
    /\ detailOptions = [orbitWindowEnd |-> 5, orbitPeriodsShown |-> 20]
    /\ lastCall.orbit = 1
    /\ lastCall.t = 0
    /\ lastCall.kind = "hit"
    /\ lastCall.scanned = FALSE
    /\ lastCall.requests = << <<0, 70>> >>
    /\ lastTime[1] = 0

Samples(plot) == {plot.samples[i] : i \in DOMAIN plot.samples}

\* A renderOrbit call for cached periodic orbit k, the time since the orbit's
\* last call advanced by less than one period.
ForwardCall(k) ==
    /\ CachedCall(k)
    /\ lastCall'.kind = "hit"
    /\ Orbits[k].isPeriodic
    /\ k \in DOMAIN lastTime
    /\ lastTime[k] < now
    /\ now - lastTime[k] < Orbits[k].period

\* C4: when renderOrbit is called again for a cached periodic orbit with the
\* time advanced by less than one period, every cached sample inside the new
\* display window stays in the cache, and the orbit is sampled only from the
\* previous end of the cached window on.
C4_ForwardSlideKeepsWindow ==
    [][\A k \in DOMAIN Orbits :
          ForwardCall(k) =>
              LET old == orbitCache[k].samples
                  o == Orbits[k]
              IN  /\ \A s \in Samples(orbitCache[k]) :
                        (/\ s >= WindowStartTime(o, now, detailOptions)
                         /\ s <= WindowEndTime(o, now, detailOptions))
                        => s \in Samples(orbitCache'[k])
                  /\ \A r \in DOMAIN lastCall'.requests :
                        lastCall'.requests[r][1] >= old[Len(old)]]_vars

\* C4 witness: period 100, default window, called at t = 0 and then at
\* t = 60. The samples from 0 to 70 were kept and the orbit was sampled over
\* [70, 130] only.
C4_SlidFrom0To60 ==
    /\ detailOptions = DefaultOptions
    /\ lastCall.orbit = 1
    /\ lastCall.t = 60
    /\ lastCall.kind = "hit"
    /\ lastCall.scanned = FALSE
    /\ lastCall.requests = << <<70, 130>> >>
    /\ orbitCache[1].samples = <<0, 20, 40, 60, 70, 90, 110, 130>>

\* The first renderOrbit call for the orbit of period 100, at t = 0 under the
\* default window settings, was the last call made.
C7_FirstCall ==
    /\ detailOptions = DefaultOptions
    /\ lastCall.orbit = 1
    /\ lastCall.kind = "miss"
    /\ lastCall.t = 0

\* C7 as stated: the first call leaves samples spanning [-50, 50].
C7_SpansDisplayWindow ==
    C7_FirstCall =>
        LET s == orbitCache[1].samples
        IN  s[1] = -50 /\ s[Len(s)] = 50

\* C7 amended: the first call samples one period back from t, [-100, 0], and
\* then slides the new plot forward to the display window widened by the
\* slack of 0.2 periods: the samples end at 70 and begin at the first
\* sample at or after -70, which is at or before -50.
C7_SpansWindowWithSlack ==
    C7_FirstCall =>
        LET s == orbitCache[1].samples
        IN  /\ lastCall.requests = << <<-100, 0>>, <<0, 70>> >>
            /\ s[Len(s)] = 70
            /\ s[1] >= -70
            /\ s[1] <= -50
            /\ \A i \in DOMAIN s : s[i] >= -70 /\ s[i] <= 70

\* C7 witness: the cache entry right after that first call.
C7_FirstCallDone ==
    /\ C7_FirstCall
    /\ pc = "render"
    /\ frameCount = 1
    /\ orbitCache[1].lastUsed = 1
    /\ Len(orbitCache[1].samples) > 1

(***************************************************************************)
(* Properties of the orbit cache (checked under SpecCache).                *)
(***************************************************************************)
CacheSize == Cardinality(DOMAIN orbitCache)
Age(k) == frameCount - orbitCache[k].lastUsed

\* C5 as stated: the cache never holds more than OrbitCacheCullThreshold
\* entries plus the entries inserted during a single frame.
C5_SizeBound == CacheSize <= OrbitCacheCullThreshold + maxFrameInserts

\* C5 amended: the cache may grow past OrbitCacheCullThreshold plus a frame's
\* insertions, but once a frame has inserted an entry it holds more than
\* that only if every entry was used within the last OrbitCacheRetireAge
\* frames.
C5_OnlyRecentBeyondBound ==
    (frameInserts > 0 /\ CacheSize > OrbitCacheCullThreshold + frameInserts)
        => \A k \in DOMAIN orbitCache : Age(k) <= OrbitCacheRetireAge

\* C5 witness: a scan has run and the cache still holds more than
\* OrbitCacheCullThreshold entries plus the most any frame inserted.
C5_BeyondBound ==
    /\ lastCall.scanned
    /\ lastOrbitCacheFlush = frameCount
    /\ frameInserts > 0
    /\ CacheSize > OrbitCacheCullThreshold + maxFrameInserts

\* C6: right after a renderOrbit call that ran the eviction scan, no entry
\* of the cache has frameCount - lastUsed > OrbitCacheRetireAge.
C6_NoOldEntryAfterScan ==
    [][(pc = "render" /\ pc' = "render" /\ lastCall'.scanned)
          => \A k \in DOMAIN orbitCache' :
                frameCount' - orbitCache'[k].lastUsed <= OrbitCacheRetireAge]_vars

\* C6 witness: a scan that found the cache above the threshold and evicted
\* entries, leaving it below.
C6_ScanEvicted ==
    /\ pc = "render"
    /\ lastCall.scanned
    /\ lastCall.kind = "miss"
    /\ lastOrbitCacheFlush = frameCount
    /\ CacheSize <= OrbitCacheCullThreshold
    /\ \A k \in DOMAIN orbitCache : Age(k) <= OrbitCacheRetireAge

(***************************************************************************)
(* The interval loop's renderItem calls.                                   *)
(***************************************************************************)
FrameDone == pc = "idle" /\ frameCount > 0
RenderItemCalls(id) ==
    {j \in DOMAIN renderLog :
        renderLog[j].item = id /\ renderLog[j].kind \in {"opaque", "transparent"}}
PassOf(e) == IF InOpaquePass(e) THEN "opaque" ELSE "transparent"

\* C11: when a frame is over, every entry of the culled render list has been
\* passed to renderItem exactly once, in one interval and in the pass that
\* its opacity and disc size select.
C11_RenderedExactlyOnce ==
    FrameDone =>
        \A i \in DOMAIN renderList :
            /\ Cardinality(RenderItemCalls(renderList[i].id)) = 1
            /\ \A j \in RenderItemCalls(renderList[i].id) :
                   renderLog[j].kind = PassOf(renderList[i])
\* C11 witness: a frame is over and an entry of the render list was never
\* passed to renderItem.
C11_EntryNeverRendered ==
    FrameDone /\ \E i \in DOMAIN renderList : RenderItemCalls(renderList[i].id) = {}

(***************************************************************************)
(* The per-frame containers at the entry of draw().                        *)
(***************************************************************************)
DrawEntered == pc = "idle" /\ pc' = "collect"
DrawReturned == pc = "render" /\ pc' = "idle"

Invalidated == pc = "idle" /\ pc' = "idle"
CallOnEmptyCache(k) ==
    /\ CachedCall(k)
    /\ currentIntervalIndex' = currentIntervalIndex
    /\ orbitCache = <<>>

PeriodicCallDone ==
    /\ pc = "render"
    /\ lastCall.kind \in {"miss", "hit"}
    /\ Orbits[lastCall.orbit].isPeriodic

\* C14: after a renderOrbit call for a periodic orbit, whatever the window
\* settings and the change of time, the cached samples span the display
\* window widened by the slack of 0.2 periods at both ends.
C14_CacheCoversWindowWithSlack ==
    PeriodicCallDone =>
        LET k == lastCall.orbit
            s == orbitCache[k].samples
        IN  /\ s # <<>>
            /\ s[1] <= NewWindowStart(Orbits[k], lastCall.t, detailOptions)
            /\ s[Len(s)] >= NewWindowEnd(Orbits[k], lastCall.t, detailOptions)
\* C14 witness: a renderOrbit call for a periodic orbit has returned and the
\* cached samples end before the end of the display window itself.
C14_CacheEndsInsideWindow ==
    /\ PeriodicCallDone
    /\ LET k == lastCall.orbit
           s == orbitCache[k].samples
       IN  s[Len(s)] < WindowEndTime(Orbits[k], lastCall.t, detailOptions)

StrictlyIncreasing(s) == \A i \in 1..(Len(s) - 1) : s[i] < s[i + 1]

InInterval == pc = "render" /\ currentIntervalIndex >= 0
NextIntervalBegun ==
    /\ InInterval
    /\ pc' = "render"
    /\ currentIntervalIndex' = currentIntervalIndex + 1
\* 2^-24, half the spacing of the floats below 1
Ulp == One \div (16 * 1024 * 1024)
\* j/n, rounded down to a multiple of 2^-30
Share(j, n) == j * (One \div n) + (j * (One % n)) \div n

\* C16 as stated: the depth ranges are [1 - (k + 1)/n, 1 - k/n], so they
\* cover [0, 1]: the farthest interval's range ends at 1, each range begins
\* where the next one ends, and the nearest interval's range begins at 0.
C16_RangesCoverUnitInterval ==
    InInterval =>
          /\ currentIntervalIndex = 0 => depthRange[2] = One
          /\ currentIntervalIndex = Len(depthPartitions) - 1 => depthRange[1] = 0
          /\ depthRange[1] < depthRange[2]

\* C16 amended: the farthest interval's range ends at exactly 1, each range
\* begins exactly where the next one ends, every range is non-empty and
\* both its ends and its size are within 2^-23 of 1 - (k + 1)/n, 1 - k/n and
\* 1/n; the nearest interval's range begins at 0 or at 2^-24.
C16_RangesAdjacentWithinRounding ==
    [][/\ NextIntervalBegun => depthRange'[2] = depthRange[1]
       /\ (pc' = "render" /\ currentIntervalIndex' >= 0) =>
             LET n == Len(depthPartitions')
                 k == currentIntervalIndex'
                 lo == depthRange'[1]
                 hi == depthRange'[2]
             IN  /\ k = 0 => hi = One
                 /\ k = n - 1 => lo \in {0, Ulp}
                 /\ lo < hi
                 /\ Abs(lo - Share(n - k - 1, n)) <= 2 * Ulp
                 /\ Abs(hi - Share(n - k, n)) <= 2 * Ulp
                 /\ Abs((hi - lo) - Share(1, n)) <= 2 * Ulp]_vars
\* C16 witness: the nearest of 41 intervals has been begun and its depth
\* range starts at 2^-24, not at 0.
C16_NearestRangeStartsAboveZero ==
    /\ InInterval
    /\ Len(depthPartitions) = 41
    /\ currentIntervalIndex = 40
    /\ depthRange[1] = Ulp

(***************************************************************************)
(* Aperiodic orbits (checked under SpecCache).                             *)
(***************************************************************************)
NoFiniteRange(k) == ~Orbits[k].isPeriodic /\ Orbits[k].begin = Orbits[k].end

\* C18: an aperiodic orbit whose valid range is empty (begin = end) never
\* has samples in the cache, so that renderOrbit returns at the test for an
\* empty path and draws nothing, in the frame of the miss and afterwards.
C18_NoSamplesWithoutRange ==
    \A k \in DOMAIN orbitCache : NoFiniteRange(k) => orbitCache[k].samples = <<>>
\* C18 witness: renderOrbit has missed on an aperiodic orbit without a finite
\* valid range, sampled it over [t, t + period] and cached the samples.
C18_SampledWithoutRange ==
    /\ pc = "render"
    /\ lastCall.kind = "miss"
    /\ NoFiniteRange(lastCall.orbit)
    /\ lastCall.requests = << <<now, now + Orbits[lastCall.orbit].period>> >>
    /\ Len(orbitCache[lastCall.orbit].samples) > 1

FiniteRangeMiss ==
    /\ pc = "render"
    /\ lastCall.kind = "miss"
    /\ ~Orbits[lastCall.orbit].isPeriodic
    /\ Orbits[lastCall.orbit].begin # Orbits[lastCall.orbit].end

\* C19: a miss on an aperiodic orbit with a finite valid range inserts at
\* least 100 and at most 1000 samples, the number the miss branch computes.
C19_InsertedCountClamped ==
    FiniteRangeMiss =>
        /\ Len(orbitCache[lastCall.orbit].samples) >= MinAperiodicSamples
        /\ Len(orbitCache[lastCall.orbit].samples) <= MaxAperiodicSamples
        /\ Len(orbitCache[lastCall.orbit].samples) = lastCall.nSamples
\* C19 witness: the miss computed nSamples = 1000 for a trajectory of period
\* 60 and inserted the four samples that Orbit::sample handed out.
C19_CountNotApplied ==
    /\ FiniteRangeMiss
    /\ Orbits[lastCall.orbit].period = 60
    /\ lastCall.nSamples = MaxAperiodicSamples
    /\ Len(orbitCache[lastCall.orbit].samples) = 4


(***************************************************************************)
(* C17: the traversal of a body's frame tree                               *)
(***************************************************************************)
\* The three tests read off the frame tree last met
ThresholdPassed == (subtree.tree.far => subtree.tree.bright) \/ (subtree.tree.far => subtree.tree.largestTenths > 10)
FrustumMet == subtree.tree.intersects
PlanetshinePossible == subtree.tree.illuminators /\ subtree.tree.inCone /\ (subtree.tree.far => subtree.tree.largestTenths > 1)

CasterFailsPrecondition ==
    \/ lastEclipse.caster.radius * 1000 < ReceiverRadius * 5
    \/ ~lastEclipse.caster.hasVisibleGeometry
    \/ ~lastEclipse.caster.extant
    \/ ~lastEclipse.caster.isEllipsoid

\* C20: when the caster fails any of the four preconditions, testEclipse
\* returns false and leaves the lighting state as it was: no eclipse shadow
\* appended, the ring shadow untouched.
C20_FailedCasterLeavesLightingState ==
    (lastEclipse.called /\ CasterFailsPrecondition) =>
        /\ lastEclipse.returned = FALSE
        /\ lightingState.shadows = lastEclipse.before.shadows
        /\ lightingState.ringShadow = lastEclipse.before.ringShadow

\* A caster that would shadow the receiver with a deep shadow and with its
\* rings, but fails a precondition, was tested after an earlier caster had put
\* a shadow and a ring shadow into the lighting state.
C20_FailedCasterTestedAfterShadow ==
    /\ lastEclipse.called
    /\ CasterFailsPrecondition
    /\ lastEclipse.caster.inShadow
    /\ lastEclipse.caster.deep
    /\ lastEclipse.caster.hasRings
    /\ lastEclipse.caster.ringsReach
    /\ lastEclipse.before.shadows # <<>>
    /\ lastEclipse.before.ringShadow # 0
    /\ lastEclipse.before.ringShadow # lastEclipse.caster.id
    /\ lastEclipse.returned = FALSE


(***************************************************************************)
(* C21: near and far plane of each partition                               *)
(***************************************************************************)
\* C21: every partition draw() builds has its near clip distance no greater
\* than its far clip distance, also when an entry arrives with an inverted
\* span or when the first entry of more than a pixel is farther than 1.01
\* times the far extent of the last entry of the list.
C21_NearNotBeyondFar ==
    pc = "render" =>
        \A k \in DOMAIN depthPartitions :
            -depthPartitions[k].nearZ <= -depthPartitions[k].farZ


\* C21, the case that fails: a reference mark alone in the render list, the
\* camera inside its bounding sphere 5 m from the far edge. Its span arrives
\* inverted (near extent 10 m, far extent 5 m) and becomes a partition as it
\* is.
C21_InvertedSpanPartition ==
    /\ pc = "render"
    /\ Ids(renderList) = <<7>>
    /\ renderList[1].nearZ = -10000
    /\ renderList[1].farZ = -5000
    /\ Len(depthPartitions) = 3
    /\ depthPartitions[2] = Partition(1, -10000, -5000)


(***************************************************************************)
(* C22: no gap between the partitions                                      *)
(***************************************************************************)
\* The clip planes of all partitions and the depths one step to either side
ProbeDepths ==
    UNION {{-depthPartitions[k].nearZ - 1, -depthPartitions[k].nearZ,
            -depthPartitions[k].nearZ + 1, -depthPartitions[k].farZ - 1,
            -depthPartitions[k].farZ, -depthPartitions[k].farZ + 1} :
           k \in DOMAIN depthPartitions}
InPartition(k, depth) ==
    -depthPartitions[k].nearZ <= depth /\ depth <= -depthPartitions[k].farZ
\* Not in front of the nearest near plane and not behind the farthest far plane
WithinPartitionedRange(depth) ==
    /\ \E k \in DOMAIN depthPartitions : -depthPartitions[k].nearZ <= depth
    /\ \E k \in DOMAIN depthPartitions : depth <= -depthPartitions[k].farZ

\* C22: in construction order the far clip distance of partition k + 1 is at
\* least the near clip distance of partition k, so that every depth from the
\* nearest near plane to the farthest far plane lies in some partition.
C22_NoGapBetweenPartitions ==
    pc = "render" =>
        /\ \A k \in 1..(Len(depthPartitions) - 1) :
              -depthPartitions[k + 1].farZ >= -depthPartitions[k].nearZ
        /\ \A depth \in ProbeDepths :
              WithinPartitionedRange(depth)
                  => \E k \in DOMAIN depthPartitions : InPartition(k, depth)

\* C22, the case that fails: the reference mark with the inverted span (near
\* extent 10 m, far extent 5 m) and an annotation 8 m away. The partitions
\* reach from 5 m to 5.05 m and from 7.992 m to 10 m, the one between them is
\* inverted, and the depths from 5.05 m to 7.992 m lie in none, although each
\* partition begins where the one before it ends.
C22_DepthsBetweenPartitionsUncovered ==
    /\ pc = "render"
    /\ Ids(renderList) = <<7>>
    /\ depthSortedAnnotations = <<8000>>
    /\ orbitPathList = <<>>
    /\ depthPartitions = <<Partition(0, -5000, -5050), Partition(1, -10000, -5000),
                           Partition(2, -7992, -10000)>>
    /\ \A k \in 1..2 : depthPartitions[k + 1].farZ = depthPartitions[k].nearZ
    /\ WithinPartitionedRange(6000)
    /\ \A k \in DOMAIN depthPartitions : ~InPartition(k, 6000)


(***************************************************************************)
(* C23: the eviction scan of the orbit cache (checked under SpecCache)     *)
(***************************************************************************)
\* C23: the eviction scan runs at most once in a frame, however many
\* renderOrbit calls of the frame miss a cache that holds more than
\* OrbitCacheCullThreshold entries, and a call that hits the cache neither
\* scans nor evicts.
C23_ScanAtMostOncePerFrame ==
    [][/\ frameScans' <= 1
       /\ (pc = "render" /\ pc' = "render" /\ lastCall'.kind = "hit")
              => /\ frameScans' = frameScans
                 /\ lastOrbitCacheFlush' = lastOrbitCacheFlush
                 /\ DOMAIN orbitCache' = DOMAIN orbitCache]_vars

\* C23 witness: the second miss of a frame found the cache above the
\* threshold and did not scan, the first one having scanned.
C23_SecondMissDidNotScan ==
    /\ pc = "render"
    /\ frameInserts = 2
    /\ frameScans = 1
    /\ lastCall.kind = "miss"
    /\ ~lastCall.scanned
    /\ lastOrbitCacheFlush = frameCount
    /\ CacheSize > OrbitCacheCullThreshold + 1


(***************************************************************************)
(* C24: the order of the work within and across intervals                  *)
(***************************************************************************)
IntervalWork == {"opaque", "orbit", "transparent", "annotation"}
\* The place of a kind of work within its interval
Rank(kind) ==
    CASE kind = "opaque" -> 1
      [] kind = "orbit" -> 2
      [] kind = "transparent" -> 3
      [] kind = "annotation" -> 4
KindsLogged(k) ==
    {renderLog[i].kind : i \in {j \in DOMAIN renderLog : renderLog[j].interval = k}}

\* C24: within an interval all opaque renderItem calls precede all renderOrbit
\* calls, these precede all renderItem calls of the transparent pass, and
\* these precede the annotations drawn; all work of an interval precedes all
\* work of the next.
C24_PassesInOrder ==
    \A i, j \in DOMAIN renderLog :
        (i < j /\ renderLog[i].kind \in IntervalWork /\ renderLog[j].kind \in IntervalWork)
            => \/ renderLog[i].interval < renderLog[j].interval
               \/ /\ renderLog[i].interval = renderLog[j].interval
                  /\ Rank(renderLog[i].kind) <= Rank(renderLog[j].kind)

\* C24 witness: a frame is over in which one interval had work of all four
\* kinds and another interval had work before it.
C24_IntervalWithAllPasses ==
    /\ FrameDone
    /\ \E k \in 1..Len(depthPartitions) :
          /\ KindsLogged(k) = IntervalWork
          /\ KindsLogged(k - 1) # {}


(***************************************************************************)
(* C25: the interval in which a depth-sorted annotation is drawn           *)
(***************************************************************************)
AnnotationsDrawn == {i \in DOMAIN renderLog : renderLog[i].kind = "annotation"}
\* Camera depth of the annotation of log entry i, and the partition of the
\* interval it was drawn in
DepthDrawn(i) == depthSortedAnnotations[renderLog[i].item]
PartitionDrawn(i) == depthPartitions[renderLog[i].interval + 1]

\* C25 as stated: a depth-sorted annotation is drawn during an interval only
\* if its camera depth lies within the interval's [near, far] clip range.
C25_DrawnWithinClipRange ==
    \A i \in AnnotationsDrawn :
        /\ -PartitionDrawn(i).nearZ <= DepthDrawn(i)
        /\ DepthDrawn(i) <= -PartitionDrawn(i).farZ

\* C25 amended: a depth-sorted annotation is drawn during an interval only if
\* its camera depth is greater than the interval's near clip distance; the
\* far clip distance is not looked at.
C25_DrawnBehindNearPlane ==
    \A i \in AnnotationsDrawn : DepthDrawn(i) > -PartitionDrawn(i).nearZ

\* C25 witness: a body with far extent 1000 km and an annotation 1200 km
\* away. The annotation is drawn in the first interval, whose far plane is at
\* 1010 km.
C25_AnnotationBeyondFarPlaneDrawn ==
    /\ pc = "render"
    /\ Ids(renderList) = <<1>>
    /\ orbitPathList = <<>>
    /\ depthSortedAnnotations = <<1200 * Km>>
    /\ depthPartitions[1].farZ = -1010 * Km
    /\ \E i \in AnnotationsDrawn : renderLog[i].interval = 0 /\ renderLog[i].item = 1

\* C26: after setupObjectLighting the lights in use are in non-increasing
\* order of irradiance, light 0 being the brightest, and there are at most
\* MaxLights of them.
C26_LightsSortedByBrightness ==
    /\ lightingState.nLights <= MaxLights
    /\ lightingState.nLights <= Len(lightingState.lights)
    /\ \A i, j \in 1..lightingState.nLights :
           i < j => lightingState.lights[i].irradiance >= lightingState.lights[j].irradiance
\* Two suns and the planetshine were sorted: the planetshine, brighter than
\* both, is light 0, a sun is light 1, and the other sun, too faint to show,
\* is not in use.
C26_PlanetshineSortedAheadOfSun ==
    /\ lightingState.nLights = 2
    /\ Len(lightingState.lights) = 3
    /\ ~lightingState.lights[1].castsShadows
    /\ lightingState.lights[2].castsShadows
    /\ lightingState.lights[1].irradiance > lightingState.lights[2].irradiance
    /\ lightingState.lights[2].irradiance > 0

\* C27: the assertions of the annotation batch hold. beginObjectAnnotations
\* is never called while a set is open or objectAnnotations is non-empty and
\* addObjectAnnotation only while a set is open (no assertion has failed);
\* every begin of the frame but that of the interval under way has had its
\* end, one begin per interval; outside the interval loop, and so after
\* draw() returns, the set is closed and objectAnnotations is empty.
C27_AnnotationBatchesMatched ==
    /\ objectAnnotationCalls.held
    /\ objectAnnotationCalls.begun - objectAnnotationCalls.ended
           = IF objectAnnotationSetOpen THEN 1 ELSE 0
    /\ pc = "render" => objectAnnotationCalls.begun = currentIntervalIndex + 1
    /\ objectAnnotations # <<>> => objectAnnotationSetOpen
    /\ (pc # "render" \/ currentIntervalIndex < 0)
           => ~objectAnnotationSetOpen /\ objectAnnotations = <<>>
\* A frame is over in which two intervals each opened and closed a set and
\* labels added in both were drawn.
C27_TwoBatchesDrawn ==
    /\ FrameDone
    /\ objectAnnotationCalls.begun >= 2
    /\ objectAnnotationCalls.ended = objectAnnotationCalls.begun
    /\ \E i, j \in DOMAIN renderLog :
           /\ renderLog[i].kind = "label" /\ renderLog[j].kind = "label"
           /\ renderLog[i].interval < renderLog[j].interval

\* The depth key of a render list entry
DepthKey(e) == e.centerZ - e.radius

\* C28 as stated: after the depth sort two entries with equal depth keys are
\* in their insertion order (entries are inserted in the order of their ids).
C28_EqualKeysKeepInsertionOrder ==
    pc = "render" =>
        \A i, j \in 1..Len(renderList) :
            (i < j /\ DepthKey(renderList[i]) = DepthKey(renderList[j]))
                => renderList[i].id < renderList[j].id
\* C28: after the depth sort the render list is in order of depth key,
\* nearest first (no entry is ahead of one whose key is greater); nothing is
\* said of the order of entries with equal keys.
C28_SortedByDepthKey ==
    pc = "render" =>
        \A i, j \in 1..Len(renderList) :
            i < j => DepthKey(renderList[i]) >= DepthKey(renderList[j])
\* Two entries with equal keys have left the sort in the reverse of their
\* insertion order, next to a third entry with another key.
C28_EqualKeysReversed ==
    /\ pc = "render"
    /\ Len(renderList) >= 3
    /\ \E i, j \in 1..Len(renderList) :
           /\ i < j
           /\ DepthKey(renderList[i]) = DepthKey(renderList[j])
           /\ renderList[i].id > renderList[j].id

\* C29: over the whole frame the depth-sorted annotations are drawn in order
\* of non-increasing camera depth and each at most once: of two annotations
\* drawn, the one drawn later comes later in the sorted list and is not
\* farther away, in whichever intervals they were drawn.
C29_DrawnFarthestFirstOnce ==
    \A i, j \in AnnotationsDrawn :
        i < j => /\ renderLog[i].item < renderLog[j].item
                 /\ DepthDrawn(i) >= DepthDrawn(j)
\* A frame is over in which the flush of one interval stopped at an
\* annotation that a later interval drew, after a farther one drawn before.
C29_DrawnOverTwoIntervals ==
    /\ FrameDone
    /\ \E i, j \in AnnotationsDrawn :
           /\ i < j
           /\ renderLog[i].interval < renderLog[j].interval
           /\ DepthDrawn(i) > DepthDrawn(j)

\* K: the entries of the render list that take part in the partitioning
PartitioningEntries == {i \in 1..Len(renderList) : renderList[i].discSizeInPixels > 1}

\* C30: after the partitions of a frame are built, depthPartitions holds at
\* least one and at most 2 * K + 1 partitions, K being the number of render
\* list entries with discSizeInPixels > 1, and the index of the partition at
\* position k is k.
C30_PartitionCountAndIndex ==
    pc = "render" =>
        /\ Len(depthPartitions) >= 1
        /\ Len(depthPartitions) <= 2 * Cardinality(PartitioningEntries) + 1
        /\ \A k \in 0..Len(depthPartitions) - 1 : depthPartitions[k + 1].index = k
\* Two entries larger than a pixel, each with an interval of its own and a
\* gap interval behind it: five partitions with the front one.
C30_MostPartitions ==
    /\ pc = "render"
    /\ Cardinality(PartitioningEntries) = 2
    /\ Len(depthPartitions) = 5
====
